---- MODULE Spec2Model ----
(***************************************************************************)
(* yunbot: a OneBot v11 client.  This module models the request/response  *)
(* correlation table (yunbot/store.py, ResultStore) and the WebSocket      *)
(* connection that owns it (yunbot/connection.py, WebSocketConnection).    *)
(*                                                                         *)
(* Scheduling model: one asyncio event loop.  Code between two awaits runs *)
(* atomically; every action below is one such run.  A task that was woken  *)
(* (its future settled or cancelled) resumes in a LATER run, so a settled  *)
(* future and its still-suspended caller are two distinct states.          *)
(*                                                                         *)
(* The layers above the connection (yunbot/adapter.py, client.py,          *)
(* matcher.py, bot.py, event.py) have specifications of their own over     *)
(* their own variables; in each specification the variables of the layers  *)
(* it does not instantiate keep their placeholder values.                  *)
(***************************************************************************)
EXTENDS Integers, Sequences, FiniteSets, TLC

\* ------------------------------------------------------------------ bounds
MaxFetch == 2      \* fetch calls made on a ResultStore driven directly
MaxReq == 2        \* send_request calls made on a connection
MaxFrames == 2     \* inbound frames read by the receive loop in one behaviour
MaxEntries == 2    \* entries of Config.connections
MaxUserId == 1     \* largest self id a peer reports (0 is "no id")
MaxMatchers == 2   \* Matchers registered
MaxPriority == 2   \* largest priority a Matcher is given
MaxHandlers == 3   \* handlers registered on the channels of a client
MaxAdapters == 2   \* adapters a client builds in one behaviour
MaxSends == 2
MaxText == 4
MaxCq == 7
MaxSegs == 2
MaxConns == 3
MaxHandlerIds == 6
MaxArrivals == 3
MaxClock == 5
MaxRate == 2
MaxWindow == 3
MaxAttempts == 4
MaxDelay == 2
MaxBackoff == 3
MaxOps == 6
MaxSize == 3
MaxHandled == 2
MaxInbound == 3
MaxEventHandlers == 2

\* ------------------------------------------------------------------ values
Ids == 1..MaxFetch          \* correlation ids: secrets.token_hex(16), fresh and non-empty
NoEcho == 0                \* a response whose echo is absent, empty, or no id ever issued
NoField == "absent"        \* a key the response dict does not hold
NoneItem == 0              \* None in a CircularBuffer slot, and what get() returns when empty
MessageText == "message-text"
MsgText == "msg-text"
DefaultFailText == "API call failed"
NotConnectedText == "WebSocket not connected"
TimeoutText == "API request timeout"

\* An inbound RPC response: a dict holding both "status" and "retcode".
Responses ==
  { r \in [echo : 0..MaxFetch, status : {"ok", "failed"},
           message : {NoField, MessageText}, msg : {NoField, MsgText}] :
      r.status = "ok" => (r.message = NoField /\ r.msg = NoField) }

NoResp == [echo |-> NoEcho, status |-> "none", message |-> NoField, msg |-> NoField]

\* asyncio.Future of one fetch: st is its state, res its result, err the text
\* of the NetworkException set on it.
NoFuture == [st |-> "none", res |-> NoResp, err |-> ""]
PendingFuture == [st |-> "pending", res |-> NoResp, err |-> ""]

\* What a send_request / fetch call ended with: kind is "value" or the class of
\* the exception raised to the caller.
NoOutcome == [kind |-> "none", res |-> NoResp, err |-> ""]

\* An inbound frame as _handle_message reads it: echo; status absent, a string
\* or a dict; whether retcode is present; post_type and meta_event_type; and
\* whether parse_event accepts the payload.
NoFrame ==
  [echo |-> NoEcho, status |-> "absent", retcode |-> FALSE, post |-> "absent",
   meta |-> "absent", parses |-> FALSE]
NoHandled == [frame |-> NoFrame, route |-> "none", decoded |-> FALSE, dispatched |-> FALSE]

\* No _handle_event call of the adapter yet.
NoEventCall ==
  [from |-> 0, sid |-> 0, post |-> "", tracked |-> 0, bound |-> 0, ready |-> FALSE,
   emits |-> <<>>]

VARIABLES
  futures,    \* ResultStore._futures: the ids in dict (insertion) order
  fut,        \* id -> the asyncio.Future created by fetch(id)
  timedOut,   \* id -> the wait_for timer of fetch(id) has fired
  pc,         \* id -> where the caller of send_request / fetch is
  outcome,    \* id -> what the call returned or raised
  nreq,       \* calls made so far; the next call gets id nreq + 1
  last,       \* the last direct call of a ResultStore operation: its name, the echo
              \* of the response it was given, and what it returned
  connected,  \* WebSocketConnection.connected
  closed,     \* WebSocketConnection._closed
  ws,         \* WebSocketConnection._ws: "none", "open", "closed"
  session,    \* WebSocketConnection._session: "none", "open", "closed"
  rxTask,     \* _receive_task: "none", "running", "finished", "cancelled"
  hbTask,     \* _heartbeat_task: "none", "running", "finished"
  hbEnabled,  \* config.heartbeat_interval is set and > 0
  dpc,        \* where a running disconnect() is: "idle", or "first" / "again"
              \* when it awaits the close of the socket and the session, having
              \* found _closed false / true when it was called
  dlast,      \* how the last disconnect() call ended: "none" (never called),
              \* "first", "again" (returned), "raised"
  wrote,      \* ids whose request frame was handed to the socket
  inbox,      \* frames whose _handle_message task is scheduled, oldest first;
              \* late records that the call a frame echoes had ended when it was read
  nframes     \* frames read so far

VARIABLES
  config,       \* OneBotAdapter.config.connections: the entries, in order
  conn,         \* entry index -> the connection object the running or last start()
                \* built for it: "none", "connecting", "connected", "dropped"
                \* (its receive loop ended), "closed" (disconnect() ran on it)
  connections,  \* OneBotAdapter.connections: the dict in insertion order, each
                \* item a key (the entry's type) and the entry index of its value
  bots,         \* OneBotAdapter.bots: the self ids it holds a bot for
  running,      \* OneBotAdapter._running
  apc,          \* where the lifecycle call in progress on the adapter is
  alast,        \* how the last start() / stop() call ended: "none", "started",
                \* "noop" (start() on a running adapter), "stopped", "raised"
  stopLog       \* the disconnect() calls made by the running or last stop(): the
                \* entry index of the connection and whether the call raised

storeVars == <<futures, fut, timedOut, pc, outcome, nreq, last>>
connVars == <<connected, closed, ws, session, rxTask, hbTask, hbEnabled, dpc,
              dlast, wrote, inbox, nframes>>
VARIABLES
  matchers,     \* matcher._matchers: the registry, kept sorted by priority
  mpc,          \* handle_event: "idle", "running", "returned", "raised"
  mevent,       \* the event the running or last handle_event was given
  mpos,         \* the index in the registry its loop is at
  mran          \* the Matchers it evaluated beyond a failed check, in order:
                \* the id, "ran", "handler_raised" or "check_raised", and how
                \* many of its handlers were called

VARIABLES
  clientRunning,  \* OneBotClient._running
  hasConfig,      \* OneBotClient.config is set
  adapters,       \* the adapters the client built, the last being self.adapter:
                  \* state "starting", "running", "stopping", "stopped", and the
                  \* number of dispatchers registered on its event channel
  cpc,            \* the lifecycle call in progress on the client: "idle",
                  \* "start", "stop"
  clast,          \* how the last start() / stop() ended
  handlers,       \* OneBotClient._event_handlers: channel -> handlers in list
                  \* order, each its registration number and whether it raises
  devent,         \* the event the running or last dispatch is for
  dstage,         \* the dispatcher: "idle", "running", "returned", "raised"
  dpoint,         \* the channel (index in the channels of the event) and the
                  \* handler (index in its list) the dispatcher calls next
  dleft,          \* dispatchers of the adapter still to be called for the event
  dtrace          \* the calls made for the event, in order

VARIABLES
  smArgs,       \* the arguments of the last send_msg call
  smResult,     \* how it ended: "none", "ValueError", "delegated"
  smCalls       \* the call_api calls the bot has been asked for, in order:
                \* the action and the target parameter

VARIABLES
  pdata,        \* the dict the last parse_event call was given
  presult       \* what it gave: the class it built, or "ValidationError"

VARIABLES
  cmdText,    \* the text of the message event: its characters
  cmdNames,   \* the names the command Matcher was given
  cmdStage,   \* handle_event on the two Matchers: "idle", "second", "returned", "raised"
  cmdCheck,   \* how the command rule ended: "none", "match", "nomatch", "IndexError"
  cmdRan      \* the Matchers whose handlers ran, in order

VARIABLES
  mArg,     \* the argument Message(...) is constructed from: a string or a list
  mStage,   \* "idle", "built" (the constructor returned), "round" (from_dict(to_dict()) returned)
  mSegs,    \* the segments of the constructed Message, or ValueErrorResult
  mBack     \* the segments of from_dict(m.to_dict()), or ValueErrorResult

VARIABLES
  cfgConns,    \* Config.connections: the entries in configuration order, each its type and its position
  cfgQuery,    \* the last lookup: "none", "one" (get_connection_by_type) or "many" (get_connections_by_types) and the kinds asked for
  cfgResult    \* what it returned: a list of entries (for "one": the entry alone, or empty for None)

VARIABLES
  lgSinks,    \* the handlers loguru holds: id, the logger name its filter lets through, sink, level
  lgIds,      \* HandlerManager._handler_ids: logger name -> the ids recorded for it, in order
  lgNextId,   \* the id loguru gives the next handler
  lgConfig,   \* YunBotLogger._config of each name: level and log_to_file, or NoConfig before a setup
  lgLast,     \* how the last setup() of each name ended: "none", "ok", "failed"
  lgOut       \* the last logging call since the last setup: name, level, and the sink of every handler that emitted it, by handler id

VARIABLES
  rlMax,        \* max_calls of the wrapper
  rlWindow,     \* time_window of the wrapper, in clock ticks
  rlClock,      \* time.time(), in ticks
  rlCalls,      \* calls: the recorded timestamps, oldest first
  rlHolder,     \* the call holding the lock: "none", or "sleeping" in asyncio.sleep
  rlNow,        \* `now` of the call holding the lock
  rlWake,       \* the time its sleep is due
  rlAdmitted    \* the times at which calls left the wrapper for the function, in order

VARIABLES
  rtMax,       \* max_attempts
  rtDelay,     \* delay
  rtBackoff,   \* backoff
  rtPc,        \* where the wrapper is: "call", "sleeping" or "done"
  rtLog,       \* the outcome of each invocation of the function, in order
  rtCur,       \* current_delay
  rtSleeps,    \* the durations passed to asyncio.sleep, in order
  rtLast,      \* last_exception: the invocation that raised it, 0 for None
  rtResult     \* how the wrapper ended: kind "return" / "raise" and the invocation it comes from

VARIABLES
  cbSize,     \* CircularBuffer.size
  cbBuffer,   \* CircularBuffer.buffer: slot index + 1 -> item, NoneItem for None
  cbHead,     \* CircularBuffer.head
  cbCount,    \* CircularBuffer.count
  cbRet,      \* what the last get() returned
  cbOps       \* the calls made on the buffer, in order

VARIABLES
  hmCount,   \* _handle_message calls run so far
  hmLast     \* the last _handle_message call: its frame, how it was routed, whether parse_event was called on it and whether _handle_event was scheduled

VARIABLES
  evLast   \* the last OneBotAdapter._handle_event call: the connection that read
           \* the event, its self_id and post_type, how many connections were
           \* tracked, the connection a bot built by the call is bound to (0: none
           \* built) with its ready flag, and the channels emit was scheduled
           \* for, in order

VARIABLES
  early    \* the ids of the requests whose response _handle_message
           \* classified while send_request was still in send_json, before it
           \* registered the slot

VARIABLES
  lpHandlers,   \* WebSocketConnection._event_handlers: what each registered handler
                \* is, in order
  lpInbox,      \* the _handle_message tasks _receive_loop created that have not run
                \* yet, oldest first: the frame each was given
  lpEvents,     \* the connection's _handle_event tasks created and not run yet
  lpTasks,      \* the tasks _handle_event created for coroutine handlers: what the
                \* handler does, where it is, and the id of its request
  lpRead,       \* frames _receive_loop has read
  lpDone        \* _handle_message tasks that have run to their end

adapterVars == <<config, conn, connections, bots, running, apc, alast, stopLog>>
sendVars == <<smArgs, smResult, smCalls>>
parseVars == <<pdata, presult>>
clientVars == <<clientRunning, hasConfig, adapters, cpc, clast, handlers,
                devent, dstage, dpoint, dleft, dtrace>>
matcherVars == <<matchers, mpc, mevent, mpos, mran>>
cmdVars == <<cmdText, cmdNames, cmdStage, cmdCheck, cmdRan>>
msgVars == <<mArg, mStage, mSegs, mBack>>
cfgVars == <<cfgConns, cfgQuery, cfgResult>>
logVars == <<lgSinks, lgIds, lgNextId, lgConfig, lgLast, lgOut>>
rateVars == <<rlMax, rlWindow, rlClock, rlCalls, rlHolder, rlNow, rlWake, rlAdmitted>>
retryVars == <<rtMax, rtDelay, rtBackoff, rtPc, rtLog, rtCur, rtSleeps, rtLast,
               rtResult>>
bufVars == <<cbSize, cbBuffer, cbHead, cbCount, cbRet, cbOps>>
frameVars == <<hmCount, hmLast>>
fanVars == <<evLast>>
raceVars == <<early>>
loopVars == <<lpHandlers, lpInbox, lpEvents, lpTasks, lpRead, lpDone>>

\* The variables of the layers above the connection.
appVars == <<adapterVars, matcherVars, clientVars, sendVars, parseVars, cmdVars,
             msgVars, cfgVars, logVars, rateVars, retryVars, bufVars, frameVars,
             fanVars, raceVars, loopVars>>

\* What the actions of one layer leave alone.
nonAdapterVars == <<storeVars, connVars, matcherVars, clientVars, sendVars,
                    parseVars, cmdVars, msgVars, cfgVars, logVars, rateVars,
                    retryVars, bufVars, frameVars, fanVars, raceVars, loopVars>>
\* What _handle_message of the connection leaves alone above the connection.
appButRaceVars == <<adapterVars, matcherVars, clientVars, sendVars, parseVars,
                    cmdVars, msgVars, cfgVars, logVars, rateVars, retryVars, bufVars,
                    frameVars, fanVars, loopVars>>
\* What the receive loop and the tasks it starts leave alone above the connection.
appButLoopVars == <<adapterVars, matcherVars, clientVars, sendVars, parseVars,
                    cmdVars, msgVars, cfgVars, logVars, rateVars, retryVars, bufVars,
                    frameVars, fanVars, raceVars>>
\* What _handle_event, which records its call, leaves alone.
nonAdapterFanVars == <<storeVars, connVars, matcherVars, clientVars, sendVars,
                       parseVars, cmdVars, msgVars, cfgVars, logVars, rateVars,
                       retryVars, bufVars, frameVars, raceVars, loopVars>>
nonMatcherVars == <<storeVars, connVars, adapterVars, clientVars, sendVars,
                    parseVars, cmdVars, msgVars, cfgVars, logVars, rateVars,
                    retryVars, bufVars, frameVars, fanVars, raceVars, loopVars>>
nonClientVars == <<storeVars, connVars, adapterVars, matcherVars, sendVars,
                   parseVars, cmdVars, msgVars, cfgVars, logVars, rateVars,
                   retryVars, bufVars, frameVars, fanVars, raceVars, loopVars>>
nonSendVars == <<storeVars, connVars, adapterVars, matcherVars, clientVars,
                 parseVars, cmdVars, msgVars, cfgVars, logVars, rateVars, retryVars,
                 bufVars, frameVars, fanVars, raceVars, loopVars>>
nonParseVars == <<storeVars, connVars, adapterVars, matcherVars, clientVars,
                  sendVars, cmdVars, msgVars, cfgVars, logVars, rateVars, retryVars,
                  bufVars, frameVars, fanVars, raceVars, loopVars>>
nonCmdVars == <<storeVars, connVars, adapterVars, matcherVars, clientVars, sendVars,
                parseVars, msgVars, cfgVars, logVars, rateVars, retryVars, bufVars,
                frameVars, fanVars, raceVars, loopVars>>
nonMsgVars == <<storeVars, connVars, adapterVars, matcherVars, clientVars, sendVars,
                parseVars, cmdVars, cfgVars, logVars, rateVars, retryVars, bufVars,
                frameVars, fanVars, raceVars, loopVars>>
nonCfgVars == <<storeVars, connVars, adapterVars, matcherVars, clientVars, sendVars,
                parseVars, cmdVars, msgVars, logVars, rateVars, retryVars, bufVars,
                frameVars, fanVars, raceVars, loopVars>>
nonLogVars == <<storeVars, connVars, adapterVars, matcherVars, clientVars, sendVars,
                parseVars, cmdVars, msgVars, cfgVars, rateVars, retryVars, bufVars,
                frameVars, fanVars, raceVars, loopVars>>
nonRateVars == <<storeVars, connVars, adapterVars, matcherVars, clientVars,
                 sendVars, parseVars, cmdVars, msgVars, cfgVars, logVars, retryVars,
                 bufVars, frameVars, fanVars, raceVars, loopVars>>
nonRetryVars == <<storeVars, connVars, adapterVars, matcherVars, clientVars,
                  sendVars, parseVars, cmdVars, msgVars, cfgVars, logVars, rateVars,
                  bufVars, frameVars, fanVars, raceVars, loopVars>>
nonBufVars == <<storeVars, connVars, adapterVars, matcherVars, clientVars, sendVars,
                parseVars, cmdVars, msgVars, cfgVars, logVars, rateVars, retryVars,
                frameVars, fanVars, raceVars, loopVars>>
\* (_handle_message works on the store of its connection)
nonFrameVars == <<adapterVars, matcherVars, clientVars, sendVars, parseVars,
                  cmdVars, msgVars, cfgVars, logVars, rateVars, retryVars, bufVars,
                  fanVars, raceVars, loopVars>>
nonFanVars == <<storeVars, connVars, adapterVars, matcherVars, clientVars, sendVars,
                parseVars, cmdVars, msgVars, cfgVars, logVars, rateVars, retryVars,
                bufVars, frameVars, raceVars, loopVars>>
nonRaceVars == <<storeVars, connVars, adapterVars, matcherVars, clientVars,
                 sendVars, parseVars, cmdVars, msgVars, cfgVars, logVars, rateVars,
                 retryVars, bufVars, frameVars, fanVars, loopVars>>
nonLoopVars == <<storeVars, connVars, adapterVars, matcherVars, clientVars,
                 sendVars, parseVars, cmdVars, msgVars, cfgVars, logVars, rateVars,
                 retryVars, bufVars, frameVars, fanVars, raceVars>>

vars == <<futures, fut, timedOut, pc, outcome, nreq, last,
          connected, closed, ws, session, rxTask, hbTask, hbEnabled, dpc,
          dlast, wrote, inbox, nframes, appVars>>

\* ---- placeholders: a layer that a specification does not instantiate
AdapterIdle == [op |-> "idle", i |-> 0, phase |-> "", uid |-> 0, inStart |-> FALSE]

AdapterAbsent ==
  /\ config = <<>>
  /\ conn = <<>>
  /\ connections = <<>>
  /\ bots = {}
  /\ running = FALSE
  /\ apc = AdapterIdle
  /\ alast = "none"
  /\ stopLog = <<>>

NoEvent == [post_type |-> "none"]

MatcherAbsent ==
  /\ matchers = <<>>
  /\ mpc = "idle"
  /\ mevent = NoEvent
  /\ mpos = 0
  /\ mran = <<>>

\* The channels of a client: the wildcard channel and one per post type.
PerType == {"message", "notice", "request", "meta_event"}
ChannelNames == {"event"} \cup PerType

ClientAbsent ==
  /\ clientRunning = FALSE
  /\ hasConfig = FALSE
  /\ adapters = <<>>
  /\ cpc = "idle"
  /\ clast = "none"
  /\ handlers = [ch \in ChannelNames |-> <<>>]
  /\ devent = NoEvent
  /\ dstage = "idle"
  /\ dpoint = [c |-> 0, p |-> 0]
  /\ dleft = 0
  /\ dtrace = <<>>

\* Python's None as an id argument and as a message argument.
NoneId == -1
NoneMessage == "<None>"

NoArgs == [message_type |-> "none", user_id |-> NoneId, group_id |-> NoneId,
           message |-> NoneMessage]

SendAbsent ==
  /\ smArgs = NoArgs
  /\ smResult = "none"
  /\ smCalls = <<>>

NoData == [post_type |-> "none"]

ParseAbsent ==
  /\ pdata = NoData
  /\ presult = "none"

CmdAbsent ==
  /\ cmdText = <<>>
  /\ cmdNames = {}
  /\ cmdStage = "idle"
  /\ cmdCheck = "none"
  /\ cmdRan = <<>>

NoArg == [kind |-> "none"]

MsgAbsent ==
  /\ mArg = NoArg
  /\ mStage = "idle"
  /\ mSegs = <<>>
  /\ mBack = <<>>

NoQuery == [op |-> "none", kinds |-> {}]

CfgAbsent ==
  /\ cfgConns = <<>>
  /\ cfgQuery = NoQuery
  /\ cfgResult = <<>>

LoggerNames == {"YunBot", "plugin"}
NoConfig == [level |-> "", file |-> FALSE]
NoOut == [name |-> "", level |-> "", sinks |-> <<>>]

LogAbsent ==
  /\ lgSinks = {}
  /\ lgIds = [n \in LoggerNames |-> <<>>]
  /\ lgNextId = 1
  /\ lgConfig = [n \in LoggerNames |-> NoConfig]
  /\ lgLast = [n \in LoggerNames |-> "none"]
  /\ lgOut = NoOut

RateAbsent ==
  /\ rlMax = 0
  /\ rlWindow = 0
  /\ rlClock = 0
  /\ rlCalls = <<>>
  /\ rlHolder = "none"
  /\ rlNow = 0
  /\ rlWake = 0
  /\ rlAdmitted = <<>>

RetryAbsent ==
  /\ rtMax = 0
  /\ rtDelay = 0
  /\ rtBackoff = 0
  /\ rtPc = "done"
  /\ rtLog = <<>>
  /\ rtCur = 0
  /\ rtSleeps = <<>>
  /\ rtLast = 0
  /\ rtResult = [kind |-> "none", at |-> 0]

BufAbsent ==
  /\ cbSize = 0
  /\ cbBuffer = <<>>
  /\ cbHead = 0
  /\ cbCount = 0
  /\ cbRet = NoneItem
  /\ cbOps = <<>>

FrameAbsent ==
  /\ hmCount = 0
  /\ hmLast = NoHandled

FanAbsent ==
  /\ evLast = NoEventCall

RaceAbsent ==
  /\ early = {}

LoopAbsent ==
  /\ lpHandlers = <<>>
  /\ lpInbox = <<>>
  /\ lpEvents = 0
  /\ lpTasks = <<>>
  /\ lpRead = 0
  /\ lpDone = 0

AppAbsent ==
  /\ AdapterAbsent
  /\ MatcherAbsent
  /\ ClientAbsent
  /\ SendAbsent
  /\ ParseAbsent
  /\ CmdAbsent
  /\ MsgAbsent
  /\ CfgAbsent
  /\ LogAbsent
  /\ RateAbsent
  /\ RetryAbsent
  /\ BufAbsent
  /\ FrameAbsent
  /\ FanAbsent
  /\ RaceAbsent
  /\ LoopAbsent

\* ------------------------------------------------------------ ResultStore
InTable(fs, i) == \E k \in 1..Len(fs) : fs[k] = i

\* dict.pop(key) / dict.pop(key, None): the other keys keep their order.
Pop(fs, i) == SelectSeq(fs, LAMBDA x : x # i)

\* ErrorMsg with the two keys looked up in the other order.
ErrorMsgPrefersMsg(r) ==
  IF r.msg # NoField THEN r.msg
  ELSE IF r.message # NoField THEN r.message
  ELSE DefaultFailText

\* result.get("message", result.get("msg", "API调用失败"))
ErrorMsg(r) ==
  IF r.message # NoField THEN r.message
  ELSE IF r.msg # NoField THEN r.msg
  ELSE DefaultFailText

\* The branch both add_result and add_result_by_order take on a future that
\* is not done: set_exception(NetworkException(text)) or set_result(result).
Settle(r) ==
  IF r.status = "failed"
  THEN [st |-> "exception", res |-> NoResp, err |-> ErrorMsg(r)]
  ELSE [st |-> "result", res |-> r, err |-> ""]

\* AddResult reading the slot with [] instead of pop(): the key stays.
AddResultKeepsSlot(fs, fu, r) ==
  IF r.echo # NoEcho /\ InTable(fs, r.echo)
  THEN IF fu[r.echo].st = "pending"
       THEN [futures |-> fs, fut |-> [fu EXCEPT ![r.echo] = Settle(r)], ret |-> TRUE]
       ELSE [futures |-> fs, fut |-> fu, ret |-> FALSE]
  ELSE [futures |-> fs, fut |-> fu, ret |-> FALSE]

\* add_result(result): the table and futures it leaves, and what it returns.
AddResult(fs, fu, r) ==
  IF r.echo # NoEcho /\ InTable(fs, r.echo)
  THEN IF fu[r.echo].st = "pending"
       THEN [futures |-> Pop(fs, r.echo),
             fut |-> [fu EXCEPT ![r.echo] = Settle(r)], ret |-> TRUE]
       ELSE [futures |-> Pop(fs, r.echo), fut |-> fu, ret |-> FALSE]
  ELSE [futures |-> fs, fut |-> fu, ret |-> FALSE]

\* add_result_by_order(result): next(iter(self._futures)) is the oldest key.
AddResultByOrder(fs, fu, r) ==
  IF fs # <<>>
  THEN IF fu[Head(fs)].st = "pending"
       THEN [futures |-> Tail(fs),
             fut |-> [fu EXCEPT ![Head(fs)] = Settle(r)], ret |-> TRUE]
       ELSE [futures |-> Tail(fs), fut |-> fu, ret |-> FALSE]
  ELSE [futures |-> fs, fut |-> fu, ret |-> FALSE]

\* ClearAll without the cancel loop: the table is emptied only.
ClearAllWithoutCancel(fs, fu) == [futures |-> <<>>, fut |-> fu]

\* clear_all(): cancel every future that is not done, then empty the table.
ClearAll(fs, fu) ==
  [futures |-> <<>>,
   fut |-> [i \in Ids |->
              IF InTable(fs, i) /\ fu[i].st = "pending"
              THEN [fu[i] EXCEPT !.st = "cancelled"]
              ELSE fu[i]]]

\* get_pending_requests()
GetPendingRequests == futures

\* What fetch raises or returns once its future is done: the result, the
\* exception set on it, NetworkException for asyncio.TimeoutError, or the
\* CancelledError of a future cancelled by clear_all.
FetchOutcome(f, timed) ==
  CASE f.st = "result" -> [kind |-> "value", res |-> f.res, err |-> ""]
    [] f.st = "exception" -> [kind |-> "NetworkException", res |-> NoResp, err |-> f.err]
    [] f.st = "cancelled" /\ timed -> [kind |-> "NetworkException", res |-> NoResp, err |-> TimeoutText]
    [] OTHER -> [kind |-> "CancelledError", res |-> NoResp, err |-> ""]

\* fetch, first half: create the future, register it, suspend in wait_for.
\* Assigning to a key the dict already holds keeps the key's position.
Register(i) ==
  /\ futures' = IF InTable(futures, i) THEN futures ELSE Append(futures, i)
  /\ fut' = [fut EXCEPT ![i] = PendingFuture]
  /\ pc' = [pc EXCEPT ![i] = "waiting"]

\* FetchTimeout of a fetch called with timeout=None: no timer ever fires.
FetchWithoutTimeout(i) ==
  /\ FALSE
  /\ UNCHANGED vars

\* The wait_for timer of fetch(i) fires while the future is pending: the
\* future is cancelled at once, the caller resumes in a later run, and
\* until then the cancelled future stays in the table.
FetchTimeout(i) ==
  /\ pc[i] = "waiting"
  /\ fut[i].st = "pending"
  /\ fut' = [fut EXCEPT ![i].st = "cancelled"]
  /\ timedOut' = [timedOut EXCEPT ![i] = TRUE]
  /\ UNCHANGED <<futures, pc, outcome, nreq, last>>
  /\ UNCHANGED connVars
  /\ UNCHANGED appVars

\* fetch, second half: the caller resumes on its done future; the finally
\* clause pops the slot; send_request passes the result or failure on.
FetchResume(i) ==
  /\ pc[i] = "waiting"
  /\ fut[i].st # "pending"
  /\ futures' = Pop(futures, i)
  /\ outcome' = [outcome EXCEPT ![i] = FetchOutcome(fut[i], timedOut[i])]
  /\ pc' = [pc EXCEPT ![i] = "done"]
  /\ UNCHANGED <<fut, timedOut, nreq, last>>
  /\ UNCHANGED connVars
  /\ UNCHANGED appVars

\* ---- the ResultStore driven directly (its public operations, any order)
SFetch ==
  /\ nreq < MaxFetch
  /\ nreq' = nreq + 1
  /\ Register(nreq + 1)
  /\ UNCHANGED <<timedOut, outcome, last>>
  /\ UNCHANGED connVars
  /\ UNCHANGED appVars

SAddResult(r) ==
  /\ LET a == AddResult(futures, fut, r) IN
       /\ futures' = a.futures
       /\ fut' = a.fut
       /\ last' = [op |-> "add_result", echo |-> r.echo, byId |-> a.ret, byOrder |-> FALSE]
  /\ UNCHANGED <<timedOut, pc, outcome, nreq>>
  /\ UNCHANGED connVars
  /\ UNCHANGED appVars

SAddResultByOrder(r) ==
  /\ LET a == AddResultByOrder(futures, fut, r) IN
       /\ futures' = a.futures
       /\ fut' = a.fut
       /\ last' = [op |-> "add_result_by_order", echo |-> r.echo, byId |-> FALSE, byOrder |-> a.ret]
  /\ UNCHANGED <<timedOut, pc, outcome, nreq>>
  /\ UNCHANGED connVars
  /\ UNCHANGED appVars

SClearAll ==
  /\ LET c == ClearAll(futures, fut) IN
       /\ futures' = c.futures
       /\ fut' = c.fut
  /\ last' = [op |-> "clear_all", echo |-> NoEcho, byId |-> FALSE, byOrder |-> FALSE]
  /\ UNCHANGED <<timedOut, pc, outcome, nreq>>
  /\ UNCHANGED connVars
  /\ UNCHANGED appVars

Init ==
  /\ futures = <<>>
  /\ fut = [i \in Ids |-> NoFuture]
  /\ timedOut = [i \in Ids |-> FALSE]
  /\ pc = [i \in Ids |-> "idle"]
  /\ outcome = [i \in Ids |-> NoOutcome]
  /\ nreq = 0
  /\ last = [op |-> "none", echo |-> NoEcho, byId |-> FALSE, byOrder |-> FALSE]
  /\ connected = FALSE
  /\ closed = FALSE
  /\ ws = "none"
  /\ session = "none"
  /\ rxTask = "none"
  /\ hbTask = "none"
  /\ hbEnabled \in BOOLEAN
  /\ dpc = "idle"
  /\ dlast = "none"
  /\ wrote = {}
  /\ inbox = <<>>
  /\ nframes = 0
  /\ AppAbsent

StoreNext ==
  \/ SFetch
  \/ \E r \in Responses : SAddResult(r)
  \/ \E r \in Responses : SAddResultByOrder(r)
  \/ SClearAll
  \/ \E i \in Ids : FetchTimeout(i)
  \/ \E i \in Ids : FetchResume(i)

StoreSpec == Init /\ [][StoreNext]_vars

\* ------------------------------------------------------ WebSocketConnection
\* IsConnected reading the connected flag alone.
IsConnectedIgnoresClosed == connected

\* is_connected
IsConnected == connected /\ ~closed

\* What `await task` gives for a task in state t: a cancelled task raises
\* CancelledError into the awaiter, any other returns.
AwaitTask(t) == IF t = "cancelled" THEN "CancelledError" ELSE "returned"

\* DisconnectCatches with the except clauses left out.
DisconnectCatchesNothing(e) == FALSE

\* disconnect()'s handlers around both awaits: except asyncio.CancelledError.
DisconnectCatches(e) == e = "CancelledError"

\* connect(): the session is created, ws_connect succeeds, the flag is set and
\* the loops are started.  Called on a connection whose receive loop is not
\* running and on which no disconnect() is in progress.
ConnectOk ==
  /\ dpc = "idle"
  /\ rxTask # "running"
  /\ session' = "open"
  /\ ws' = "open"
  /\ connected' = TRUE
  /\ rxTask' = "running"
  /\ hbTask' = IF hbEnabled THEN "running" ELSE hbTask
  /\ UNCHANGED <<closed, hbEnabled, dpc, dlast, wrote, inbox, nframes>>
  /\ UNCHANGED storeVars
  /\ UNCHANGED appVars

\* disconnect() up to the close of the socket: both flags are set; the
\* heartbeat task is cancelled and awaited (its loop swallows CancelledError
\* and returns); the receive task is cancelled and awaited (a running loop
\* gets CancelledError at its await, its finally clears the connected flag,
\* and the await raises CancelledError into disconnect()).
DisconnectBegin ==
  /\ closed' = TRUE
  /\ connected' = FALSE
  /\ hbTask' = IF hbTask = "running" THEN "finished" ELSE hbTask
  /\ rxTask' = IF rxTask = "running" THEN "cancelled" ELSE rxTask
  /\ IF rxTask # "none" /\ AwaitTask(rxTask') # "returned"
        /\ ~DisconnectCatches(AwaitTask(rxTask'))
     THEN /\ dpc' = "idle"
          /\ dlast' = "raised"
     ELSE /\ dpc' = IF closed THEN "again" ELSE "first"
          /\ dlast' = dlast

\* connect() when ws_connect raises: the session exists, disconnect() is run
\* and NetworkException is raised once it returns.
ConnectFail ==
  /\ dpc = "idle"
  /\ rxTask # "running"
  /\ session' = "open"
  /\ DisconnectBegin
  /\ UNCHANGED <<ws, hbEnabled, wrote, inbox, nframes>>
  /\ UNCHANGED storeVars
  /\ UNCHANGED appVars

\* disconnect() called by the owner.
DisconnectStart ==
  /\ dpc = "idle"
  /\ DisconnectBegin
  /\ UNCHANGED <<ws, session, hbEnabled, wrote, inbox, nframes>>
  /\ UNCHANGED storeVars
  /\ UNCHANGED appVars

\* disconnect(): the socket, then the session are closed, then clear_all().
DisconnectFinish ==
  /\ dpc # "idle"
  /\ ws' = IF ws = "none" THEN "none" ELSE "closed"
  /\ session' = IF session = "none" THEN "none" ELSE "closed"
  /\ LET c == ClearAll(futures, fut) IN
       /\ futures' = c.futures
       /\ fut' = c.fut
  /\ dpc' = "idle"
  /\ dlast' = dpc
  /\ UNCHANGED <<connected, closed, rxTask, hbTask, hbEnabled, wrote, inbox, nframes>>
  /\ UNCHANGED <<timedOut, pc, outcome, nreq, last>>
  /\ UNCHANGED appVars

\* send_request on a connection that is not connected: raises at once.
SendRequestRefused ==
  /\ nreq < MaxReq
  /\ ~IsConnected \/ ws = "none"
  /\ nreq' = nreq + 1
  /\ pc' = [pc EXCEPT ![nreq + 1] = "done"]
  /\ outcome' = [outcome EXCEPT ![nreq + 1] =
                   [kind |-> "NetworkException", res |-> NoResp, err |-> NotConnectedText]]
  /\ UNCHANGED <<futures, fut, timedOut, last>>
  /\ UNCHANGED connVars
  /\ UNCHANGED appVars

\* send_request on a connected connection, send_json returning without
\* suspending: the frame is written and the slot registered in the same run.
SendRequestWritten ==
  /\ nreq < MaxReq
  /\ IsConnected /\ ws = "open"
  /\ nreq' = nreq + 1
  /\ wrote' = wrote \cup {nreq + 1}
  /\ Register(nreq + 1)
  /\ UNCHANGED <<timedOut, outcome, last>>
  /\ UNCHANGED <<connected, closed, ws, session, rxTask, hbTask, hbEnabled, dpc,
                 dlast, inbox, nframes>>
  /\ UNCHANGED appVars

\* send_request on a connected connection, send_json suspending (the frame is
\* buffered, the writer waits for the transport to drain).
SendRequestSuspends ==
  /\ nreq < MaxReq
  /\ IsConnected /\ ws = "open"
  /\ nreq' = nreq + 1
  /\ wrote' = wrote \cup {nreq + 1}
  /\ pc' = [pc EXCEPT ![nreq + 1] = "writing"]
  /\ UNCHANGED <<futures, fut, timedOut, outcome, last>>
  /\ UNCHANGED <<connected, closed, ws, session, rxTask, hbTask, hbEnabled, dpc,
                 dlast, inbox, nframes>>
  /\ UNCHANGED appVars

\* send_json returns to a suspended send_request, which goes on to fetch.
SendCompletes(i) ==
  /\ pc[i] = "writing"
  /\ Register(i)
  /\ UNCHANGED <<timedOut, outcome, nreq, last>>
  /\ UNCHANGED connVars
  /\ UNCHANGED appVars

\* send_json raises in a suspended send_request (the transport was lost):
\* the failure is logged and re-raised.
SendFails(i) ==
  /\ pc[i] = "writing"
  /\ ws # "open"
  /\ pc' = [pc EXCEPT ![i] = "done"]
  /\ outcome' = [outcome EXCEPT ![i] = [kind |-> "SendError", res |-> NoResp, err |-> ""]]
  /\ UNCHANGED <<futures, fut, timedOut, nreq, last>>
  /\ UNCHANGED connVars
  /\ UNCHANGED appVars

\* The frames the peer can send: a response echoes an id it was sent, or none.
PeerFrames ==
  { r \in Responses : /\ r.echo \in wrote \cup {NoEcho}
                      /\ r.msg = NoField
                      /\ r.status = "failed" => r.message # NoField }

\* _receive_loop reads one TEXT or BINARY frame and schedules _handle_message.
ReceiveFrame(f) ==
  /\ rxTask = "running"
  /\ ws = "open"
  /\ nframes < MaxFrames
  /\ inbox' = Append(inbox, [frame |-> f,
                              late |-> f.echo # NoEcho /\ pc[f.echo] = "done"])
  /\ nframes' = nframes + 1
  /\ UNCHANGED <<connected, closed, ws, session, rxTask, hbTask, hbEnabled, dpc,
                 dlast, wrote>>
  /\ UNCHANGED storeVars
  /\ UNCHANGED appVars

\* _receive_loop ends on a close-class frame, on the end of the stream or on
\* an error: its finally clears the connected flag.
ReceiveLoopExit ==
  /\ rxTask = "running"
  /\ rxTask' = "finished"
  /\ ws' = "closed"
  /\ connected' = FALSE
  /\ UNCHANGED <<closed, session, hbTask, hbEnabled, dpc, dlast, wrote, inbox, nframes>>
  /\ UNCHANGED storeVars
  /\ UNCHANGED appVars

\* _heartbeat_loop returns: its loop condition is false or a ping raised.
HeartbeatExit ==
  /\ hbTask = "running"
  /\ ~IsConnected \/ ws # "open"
  /\ hbTask' = "finished"
  /\ UNCHANGED <<connected, closed, ws, session, rxTask, hbEnabled, dpc, dlast,
                 wrote, inbox, nframes>>
  /\ UNCHANGED storeVars
  /\ UNCHANGED appVars

\* How _handle_message correlates a response: add_result, and only when that
\* returns false add_result_by_order; when both fail it is logged as orphaned.
Correlate(fs, fu, r) ==
  LET a == AddResult(fs, fu, r)
      b == AddResultByOrder(a.futures, a.fut, r)
  IN IF a.ret
     THEN [futures |-> a.futures, fut |-> a.fut, byId |-> TRUE, byOrder |-> FALSE]
     ELSE [futures |-> b.futures, fut |-> b.fut, byId |-> FALSE, byOrder |-> b.ret]

\* The response r echoes a request that is still in send_json: fetch has not
\* been called for it, so the table has no slot under its id.
HadNoSlot(r) == r.echo # NoEcho /\ pc[r.echo] = "writing"

\* One scheduled _handle_message task runs (it never awaits).
HandleMessage ==
  /\ inbox # <<>>
  /\ LET c == Correlate(futures, fut, Head(inbox).frame) IN
       /\ futures' = c.futures
       /\ fut' = c.fut
  /\ inbox' = Tail(inbox)
  /\ early' = IF HadNoSlot(Head(inbox).frame) THEN early \cup {Head(inbox).frame.echo}
              ELSE early
  /\ UNCHANGED <<timedOut, pc, outcome, nreq, last>>
  /\ UNCHANGED <<connected, closed, ws, session, rxTask, hbTask, hbEnabled, dpc,
                 dlast, wrote, nframes>>
  /\ UNCHANGED appButRaceVars

Next ==
  \/ ConnectOk
  \/ ConnectFail
  \/ DisconnectStart
  \/ DisconnectFinish
  \/ SendRequestRefused
  \/ SendRequestWritten
  \/ SendRequestSuspends
  \/ \E i \in Ids : SendCompletes(i)
  \/ \E i \in Ids : SendFails(i)
  \/ \E f \in PeerFrames : ReceiveFrame(f)
  \/ ReceiveLoopExit
  \/ HeartbeatExit
  \/ HandleMessage
  \/ \E i \in Ids : FetchTimeout(i)
  \/ \E i \in Ids : FetchResume(i)

Spec == Init /\ [][Next]_vars

\* LiveSpec: the event loop runs every ready task and fires every due timer,
\* and a write on the socket returns or raises.
LiveSpec ==
  /\ Init
  /\ [][Next]_vars
  /\ \A i \in Ids : WF_vars(FetchTimeout(i))
  /\ \A i \in Ids : WF_vars(FetchResume(i))
  /\ \A i \in Ids : WF_vars(SendCompletes(i) \/ SendFails(i))

\* ------------------------------------------------------------------ claims
\* A caller is suspended in fetch(i) on a future nobody has settled yet.
Waiting(i) == pc[i] = "waiting" /\ fut[i].st = "pending"
WaitingIds == { i \in Ids : Waiting(i) }

\* The position of id i in the table (0 when absent).
SlotIndex(i) == IF InTable(futures, i)
                THEN CHOOSE k \in 1..Len(futures) : futures[k] = i
                ELSE 0

\* C1: with a caller suspended in fetch(i), add_result(r) with r.echo = i and
\* a status other than "failed" sets exactly that caller's future to the full
\* response r, removes the slot and returns true, and the caller then returns
\* r; add_result with the echo of a fetch that is no longer waiting returns
\* false and settles no future.
C1_AddResultResolvesWaiter ==
  [][ /\ \A r \in Responses :
           SAddResult(r) =>
             /\ (r.echo # NoEcho /\ r.status # "failed" /\ Waiting(r.echo)) =>
                  /\ fut'[r.echo] = [st |-> "result", res |-> r, err |-> ""]
                  /\ \A j \in Ids \ {r.echo} : fut'[j] = fut[j]
                  /\ ~InTable(futures', r.echo)
                  /\ last'.byId
             /\ (r.echo # NoEcho /\ ~Waiting(r.echo)) =>
                  /\ ~last'.byId
                  /\ fut' = fut
      /\ \A i \in Ids :
           (FetchResume(i) /\ fut[i].st = "result") =>
             outcome'[i] = [kind |-> "value", res |-> fut[i].res, err |-> ""]
    ]_vars

\* C1 witness: a second add_result with the echo of a fetch already resolved
\* with its own response has just returned false.
C1_Witness ==
  /\ last.op = "add_result"
  /\ ~last.byId
  /\ last.echo # NoEcho
  /\ fut[last.echo].st = "result"
  /\ fut[last.echo].res.echo = last.echo
  /\ outcome[last.echo].kind = "value"

\* C3: with two or more fetches pending (registered and not yet returned) and
\* a response matching none of their ids, add_result_by_order settles the
\* first-registered fetch that can still be settled, returns true, and leaves
\* every other waiting fetch unsettled and in the table.
C3_ByOrderResolvesFirstRegistered ==
  [][ \A r \in Responses :
        (/\ Len(futures) >= 2
         /\ WaitingIds # {}
         /\ ~InTable(futures, r.echo)
         /\ SAddResultByOrder(r)) =>
          LET first == CHOOSE i \in WaitingIds :
                         \A j \in WaitingIds : SlotIndex(i) <= SlotIndex(j)
          IN /\ fut'[first] = Settle(r)
             /\ last'.byOrder
             /\ \A j \in WaitingIds \ {first} :
                  fut'[j].st = "pending" /\ InTable(futures', j)
    ]_vars

\* The text the claim gives the failure: the message field, else the msg field.
ClaimedFailureText(r, given) ==
  IF r.message # NoField THEN r.message
  ELSE IF r.msg # NoField THEN r.msg
  ELSE given

\* C4: a response with status "failed" that correlates to a waiting fetch, by
\* id or as the oldest slot, settles that fetch with a failure whose text is
\* the message field, else the msg field, never with a value; the slot is
\* removed, the operation returns true, and the caller is raised that failure.
C4_FailedResponseRaises ==
  [][ /\ \A r \in Responses :
           (r.status = "failed" /\ r.echo # NoEcho /\ Waiting(r.echo) /\ SAddResult(r)) =>
             /\ fut'[r.echo].st = "exception"
             /\ fut'[r.echo].res = NoResp
             /\ fut'[r.echo].err = ClaimedFailureText(r, fut'[r.echo].err)
             /\ ~InTable(futures', r.echo)
             /\ last'.byId
      /\ \A r \in Responses :
           (r.status = "failed" /\ futures # <<>> /\ Waiting(Head(futures))
              /\ SAddResultByOrder(r)) =>
             /\ fut'[Head(futures)].st = "exception"
             /\ fut'[Head(futures)].res = NoResp
             /\ fut'[Head(futures)].err = ClaimedFailureText(r, fut'[Head(futures)].err)
             /\ ~InTable(futures', Head(futures))
             /\ last'.byOrder
      /\ \A i \in Ids :
           (FetchResume(i) /\ fut[i].st = "exception") =>
             outcome'[i] = [kind |-> "NetworkException", res |-> NoResp, err |-> fut[i].err]
    ]_vars

\* C4 witness: a caller was raised the msg text of a failed response that
\* carried no message field.
C4_Witness ==
  \E i \in Ids :
    /\ pc[i] = "done"
    /\ outcome[i].kind = "NetworkException"
    /\ outcome[i].err = MsgText

\* C8: clear_all leaves the table empty and cancels the future of every
\* waiting fetch; a cancelled future is never given a value or a failure, and
\* a caller whose future clear_all cancelled is raised CancelledError.
C8_ClearAllCancelsWaiters ==
  [][ /\ SClearAll =>
           /\ futures' = <<>>
           /\ \A i \in WaitingIds : fut'[i] = [st |-> "cancelled", res |-> NoResp, err |-> ""]
      /\ \A i \in Ids : fut[i].st = "cancelled" => fut'[i] = fut[i]
      /\ \A i \in Ids :
           (FetchResume(i) /\ fut[i].st = "cancelled" /\ ~timedOut[i]) =>
             outcome'[i] = [kind |-> "CancelledError", res |-> NoResp, err |-> ""]
    ]_vars

\* C8 witness: clear_all ran with two fetches waiting and both callers have
\* been raised CancelledError.
C8_Witness ==
  /\ last.op = "clear_all"
  /\ futures = <<>>
  /\ Cardinality({ i \in Ids : outcome[i].kind = "CancelledError" }) >= 2

\* A send_request call is made in this step.
SendRequestCalled == nreq' = nreq + 1

\* send_request i ended with the timeout error of fetch.
TimedOutCall(i) ==
  /\ i \in Ids
  /\ pc[i] = "done"
  /\ outcome[i] = [kind |-> "NetworkException", res |-> NoResp, err |-> TimeoutText]

\* C2: once a send_request has timed out (slot removed, timeout error raised),
\* a response frame carrying its id that arrives afterwards is discarded: it
\* settles no pending request, whatever else is pending.
C2_LateResponseDiscarded ==
  [][ (/\ inbox # <<>>
       /\ Head(inbox).late
       /\ TimedOutCall(Head(inbox).frame.echo)
       /\ HandleMessage) =>
        fut' = fut
    ]_vars

C6_RefusedWithApiNotAvailable ==
  [][ (SendRequestCalled /\ ~(connected /\ ~closed)) =>
        /\ pc'[nreq'] = "done"
        /\ outcome'[nreq'].kind = "ApiNotAvailable"
        /\ wrote' = wrote
        /\ futures' = futures
        /\ fut' = fut
    ]_vars

\* C6 amended: send_request on a connection that is not connected fails at
\* once with a network error (NetworkException), writes no frame and
\* registers no slot.
C6_RefusedWithNetworkException ==
  [][ (SendRequestCalled /\ ~(connected /\ ~closed)) =>
        /\ pc'[nreq'] = "done"
        /\ outcome'[nreq'] = [kind |-> "NetworkException", res |-> NoResp, err |-> NotConnectedText]
        /\ wrote' = wrote
        /\ futures' = futures
        /\ fut' = fut
    ]_vars

\* C6 witness: a send_request was refused on a connection that had connected
\* and was then disconnected, and nothing was written or registered for it.
C6_Witness ==
  \E i \in Ids :
    /\ outcome[i].err = NotConnectedText
    /\ session = "closed"
    /\ i \notin wrote
    /\ fut[i].st = "none"

\* C7: when disconnect() completes the table is empty and every caller then
\* suspended in send_request has been released, by cancellation if its slot
\* was unsettled; this includes a caller still writing its frame.
C7_DisconnectReleasesEveryCaller ==
  [][ DisconnectFinish =>
        /\ futures' = <<>>
        /\ \A i \in Ids :
             /\ Waiting(i) => fut'[i].st = "cancelled"
             /\ pc[i] = "writing" => fut'[i].st = "cancelled"
    ]_vars

\* C9: is_connected is true iff connect() has succeeded and since then neither
\* disconnect() was called nor the receive loop exited (the receive task of
\* the last successful connect is running and no disconnect() has started).
C9_IsConnectedIffLive ==
  IsConnected <=> (rxTask = "running" /\ dpc = "idle")

\* The state a completed disconnect() leaves.
Disconnected ==
  /\ ~connected
  /\ closed
  /\ hbTask # "running"
  /\ rxTask # "running"
  /\ futures = <<>>

\* C10: disconnect() raises nothing and, whenever it completes (on a
\* never-connected connection, a first or a further time), leaves the
\* connection not connected, closed, with neither task running and an empty
\* table; run on a connection already in that state it changes none of the
\* flags and tasks.
C10_DisconnectIdempotent ==
  [][ /\ dlast' # "raised"
      /\ DisconnectFinish => Disconnected'
      /\ (dpc' # dpc /\ ~connected /\ closed /\ hbTask # "running" /\ rxTask # "running") =>
           UNCHANGED <<connected, closed, hbTask, rxTask>>
    ]_vars

\* C10 witness: a second disconnect() has completed on a connection whose
\* receive task the first one cancelled.
C10_Witness ==
  /\ dlast = "again"
  /\ dpc = "idle"
  /\ rxTask = "cancelled"
  /\ Disconnected

\* ================================================================ OneBotAdapter
\* The adapter sees a connection through connect(), disconnect(),
\* is_connected and the calls its bots make on it, so a connection is one
\* value here.  Lifecycle calls on one adapter do not overlap: its caller,
\* OneBotClient, awaits each before it makes the next.

\* A layer below that this specification does not instantiate.
ConnAbsent ==
  /\ futures = <<>>
  /\ fut = [i \in Ids |-> NoFuture]
  /\ timedOut = [i \in Ids |-> FALSE]
  /\ pc = [i \in Ids |-> "idle"]
  /\ outcome = [i \in Ids |-> NoOutcome]
  /\ nreq = 0
  /\ last = [op |-> "none", echo |-> NoEcho, byId |-> FALSE, byOrder |-> FALSE]
  /\ connected = FALSE
  /\ closed = FALSE
  /\ ws = "none"
  /\ session = "none"
  /\ rxTask = "none"
  /\ hbTask = "none"
  /\ hbEnabled = FALSE
  /\ dpc = "idle"
  /\ dlast = "none"
  /\ wrote = {}
  /\ inbox = <<>>
  /\ nframes = 0

NoSelfId == 0                     \* ConnectionConfig.self_id is None or ""
UserIds == 0..MaxUserId           \* user_id of a login-info reply, self_id of an event

\* The entries a Config can hold: the class of the entry decides whether
\* create_connection accepts it, its type field is the key it is tracked under.
ConnectionTypes ==
  { e \in [cls : {"WebSocketConfig", "HttpConfig"},
           type : {"websocket", "ws-b", "http"},
           self_id : {NoSelfId, 1}] :
      (e.cls = "HttpConfig") <=> (e.type = "http") }

Entries == 1..Len(config)

\* A table that keeps one item per assignment, whatever the key.
DictSetKeepsBoth(d, k, v) == Append(d, [key |-> k, conn |-> v])

\* dict[key] = value: an existing key keeps its place, a new one goes last.
DictSet(d, k, v) ==
  IF \E n \in 1..Len(d) : d[n].key = k
  THEN [n \in 1..Len(d) |-> IF d[n].key = k THEN [key |-> k, conn |-> v] ELSE d[n]]
  ELSE Append(d, [key |-> k, conn |-> v])

\* The connections the adapter tracks.
Tracked(d) == { d[n].conn : n \in 1..Len(d) }

\* stop() from a mutant: a raising disconnect() ends the loop.
StopCatchesNothing(e) == FALSE

\* stop(): the except clause around connection.disconnect().
StopCatches(e) == e = "Exception"

\* stop(), up to its first await: the flag is cleared, there is no task to
\* cancel; without a tracked connection both tables are cleared in the same
\* run.  cs, bs, cn are the tables and connections as the caller leaves them.
StopBegin(cs, bs, cn, inStart) ==
  /\ running' = FALSE
  /\ stopLog' = <<>>
  /\ conn' = cn
  /\ IF cs = <<>>
     THEN /\ connections' = <<>>
          /\ bots' = {}
          /\ apc' = AdapterIdle
          /\ alast' = IF inStart THEN "raised" ELSE "stopped"
     ELSE /\ connections' = cs
          /\ bots' = bs
          /\ apc' = [op |-> "stop", i |-> 1, phase |-> "disconnect", uid |-> 0,
                     inStart |-> inStart]
          /\ alast' = alast

\* start(): the loop reaches entry i (or its end) with the tables cs, bs and
\* the connections cn.  create_connection raises for an entry that is not a
\* WebSocketConfig, and start() then runs stop() and re-raises.
StartEntry(i, cs, bs, cn) ==
  IF i > Len(config)
  THEN /\ running' = TRUE
       /\ connections' = cs
       /\ bots' = bs
       /\ conn' = cn
       /\ apc' = AdapterIdle
       /\ alast' = "started"
       /\ UNCHANGED stopLog
  ELSE IF config[i].cls # "WebSocketConfig"
  THEN StopBegin(cs, bs, cn, TRUE)
  ELSE /\ connections' = cs
       /\ bots' = bs
       /\ conn' = [cn EXCEPT ![i] = "connecting"]
       /\ apc' = [op |-> "start", i |-> i, phase |-> "connect", uid |-> 0,
                  inStart |-> FALSE]
       /\ UNCHANGED <<running, alast, stopLog>>

\* start() is called: a running adapter warns and returns.
AStart ==
  /\ apc.op = "idle"
  /\ IF running
     THEN /\ alast' = "noop"
          /\ UNCHANGED <<conn, connections, bots, running, apc, stopLog>>
     ELSE StartEntry(1, connections, bots, [i \in Entries |-> "none"])
  /\ UNCHANGED config
  /\ UNCHANGED nonAdapterVars

\* connection.connect() returns: the connection is tracked under its type.
AConnectOk ==
  /\ apc.op = "start" /\ apc.phase = "connect"
  /\ conn' = [conn EXCEPT ![apc.i] = "connected"]
  /\ connections' = DictSet(connections, config[apc.i].type, apc.i)
  /\ apc' = [apc EXCEPT !.phase = IF config[apc.i].self_id # NoSelfId
                                  THEN "initialize" ELSE "login"]
  /\ UNCHANGED <<config, bots, running, alast, stopLog>>
  /\ UNCHANGED nonAdapterVars

\* connection.connect() raises, having run disconnect() on itself.
AConnectFail ==
  /\ apc.op = "start" /\ apc.phase = "connect"
  /\ StopBegin(connections, bots, [conn EXCEPT ![apc.i] = "closed"], TRUE)
  /\ UNCHANGED config
  /\ UNCHANGED nonAdapterVars

\* bot.initialize() of an entry with a self_id returns: the bot is stored
\* under the user_id of the reply.
AInitializeOk(uid) ==
  /\ apc.op = "start" /\ apc.phase = "initialize"
  /\ conn[apc.i] = "connected"
  /\ StartEntry(apc.i + 1, connections, bots \cup {uid}, conn)
  /\ UNCHANGED config
  /\ UNCHANGED nonAdapterVars

\* bot.initialize() of an entry with a self_id raises.
AInitializeFail ==
  /\ apc.op = "start" /\ apc.phase = "initialize"
  /\ StopBegin(connections, bots, conn, TRUE)
  /\ UNCHANGED config
  /\ UNCHANGED nonAdapterVars

\* start() taking any login-info result as an identity.
AnySelfIdValid(uid) == TRUE

\* if actual_self_id != 0:
ValidSelfId(uid) == uid # 0

\* get_login_info() of an entry without a self_id returns: user_id 0 is
\* logged, any other is taken as the bot's id and initialize() follows.
ALoginOk(uid) ==
  /\ apc.op = "start" /\ apc.phase = "login"
  /\ conn[apc.i] = "connected"
  /\ IF ~ValidSelfId(uid)
     THEN StartEntry(apc.i + 1, connections, bots, conn)
     ELSE /\ apc' = [apc EXCEPT !.phase = "promote", !.uid = uid]
          /\ UNCHANGED <<conn, connections, bots, running, alast, stopLog>>
  /\ UNCHANGED config
  /\ UNCHANGED nonAdapterVars

\* get_login_info() of an entry without a self_id raises: logged.
ALoginFail ==
  /\ apc.op = "start" /\ apc.phase = "login"
  /\ StartEntry(apc.i + 1, connections, bots, conn)
  /\ UNCHANGED config
  /\ UNCHANGED nonAdapterVars

\* initialize() of a bot found by get_login_info returns.
APromoteOk(uid) ==
  /\ apc.op = "start" /\ apc.phase = "promote"
  /\ conn[apc.i] = "connected"
  /\ StartEntry(apc.i + 1, connections, bots \cup {uid}, conn)
  /\ UNCHANGED config
  /\ UNCHANGED nonAdapterVars

\* initialize() of a bot found by get_login_info raises: logged.
APromoteFail ==
  /\ apc.op = "start" /\ apc.phase = "promote"
  /\ StartEntry(apc.i + 1, connections, bots, conn)
  /\ UNCHANGED config
  /\ UNCHANGED nonAdapterVars

\* stop() is called by the owner.
AStop ==
  /\ apc.op = "idle"
  /\ StopBegin(connections, bots, conn, FALSE)
  /\ UNCHANGED config
  /\ UNCHANGED nonAdapterVars

\* stop(): disconnect() of the connection the loop is at returns or raises;
\* after the last one both tables are cleared, and a stop() run by start()
\* is followed by start() re-raising.
AStopDisconnect(raised) ==
  /\ apc.op = "stop"
  /\ conn' = [conn EXCEPT ![connections[apc.i].conn] = "closed"]
  /\ stopLog' = Append(stopLog, [conn |-> connections[apc.i].conn, raised |-> raised])
  /\ IF raised /\ ~StopCatches("Exception")
     THEN /\ apc' = AdapterIdle
          /\ alast' = "raised"
          /\ UNCHANGED <<connections, bots>>
     ELSE IF apc.i < Len(connections)
     THEN /\ apc' = [apc EXCEPT !.i = apc.i + 1]
          /\ UNCHANGED <<connections, bots, alast>>
     ELSE /\ connections' = <<>>
          /\ bots' = {}
          /\ apc' = AdapterIdle
          /\ alast' = IF apc.inStart THEN "raised" ELSE "stopped"
  /\ UNCHANGED <<config, running>>
  /\ UNCHANGED nonAdapterVars

\* The receive loop of a connection ends: it is no longer connected.
ADrop(i) ==
  /\ conn[i] = "connected"
  /\ conn' = [conn EXCEPT ![i] = "dropped"]
  /\ UNCHANGED <<config, connections, bots, running, apc, alast, stopLog>>
  /\ UNCHANGED nonAdapterVars

\* The connections of the table that are connected, in dict order.
ConnectedTracked(cs, cn) ==
  SelectSeq([n \in 1..Len(cs) |-> cs[n].conn], LAMBDA c : cn[c] = "connected")

\* _handle_event binding the bot to the first tracked connection, connected
\* or not.
FirstTracked(cs, cn) == IF cs = <<>> THEN 0 ELSE cs[1].conn

\* _handle_event binding the bot to any connection that is connected,
\* tracked or not.
AnyConnected(cs, cn) ==
  IF \E c \in DOMAIN cn : cn[c] = "connected"
  THEN CHOOSE c \in DOMAIN cn : cn[c] = "connected"
  ELSE 0

\* for connection in self.connections.values(): if connection.is_connected:
\* the first such connection, 0 when there is none.
FirstConnected(cs, cn) ==
  IF ConnectedTracked(cs, cn) = <<>> THEN 0 ELSE Head(ConnectedTracked(cs, cn))

\* The post types an event can carry.
EventPostTypes == {"message", "notice"}

\* _handle_event for an event that connection i read: the call runs as a task
\* of its own, so the connection may have been closed since.  An unknown
\* non-zero self_id gets a bot (OneBotBot(self_id, connection), not
\* initialized) bound to the first tracked connection that is connected;
\* then emit is scheduled for "event" and for "event.<post_type>".
AHandleEvent(i, sid, post) ==
  /\ conn[i] \in {"connected", "dropped", "closed"}
  /\ LET c == IF sid \notin bots /\ sid # 0 THEN FirstConnected(connections, conn) ELSE 0
     IN  /\ bots' = IF c # 0 THEN bots \cup {sid} ELSE bots
         /\ evLast' = [from |-> i, sid |-> sid, post |-> post,
                       tracked |-> Len(connections), bound |-> c, ready |-> FALSE,
                       emits |-> << <<"event">>, <<"event", post>> >>]
  /\ UNCHANGED <<config, conn, connections, running, apc, alast, stopLog>>
  /\ UNCHANGED nonAdapterFanVars

AdapterInit ==
  /\ ConnAbsent
  /\ LoopAbsent
  /\ RaceAbsent
  /\ FanAbsent
  /\ FrameAbsent
  /\ BufAbsent
  /\ RetryAbsent
  /\ RateAbsent
  /\ LogAbsent
  /\ CfgAbsent
  /\ MsgAbsent
  /\ CmdAbsent
  /\ SendAbsent
  /\ ParseAbsent
  /\ MatcherAbsent
  /\ ClientAbsent
  /\ config \in UNION { [1..n -> ConnectionTypes] : n \in 1..MaxEntries }
  /\ conn = [i \in 1..Len(config) |-> "none"]
  /\ connections = <<>>
  /\ bots = {}
  /\ running = FALSE
  /\ apc = AdapterIdle
  /\ alast = "none"
  /\ stopLog = <<>>

AdapterNext ==
  \/ AStart
  \/ AConnectOk
  \/ AConnectFail
  \/ \E uid \in UserIds : AInitializeOk(uid)
  \/ AInitializeFail
  \/ \E uid \in UserIds : ALoginOk(uid)
  \/ ALoginFail
  \/ \E uid \in UserIds : APromoteOk(uid)
  \/ APromoteFail
  \/ AStop
  \/ \E raised \in BOOLEAN : AStopDisconnect(raised)
  \/ \E i \in Entries : ADrop(i)
  \/ \E i \in Entries, sid \in UserIds, post \in EventPostTypes : AHandleEvent(i, sid, post)

AdapterSpec == AdapterInit /\ [][AdapterNext]_vars

\* ---- claims on the adapter
\* start() has raised: the call is over and it ended by re-raising.
StartRaised == apc.op = "idle" /\ alast = "raised"

\* C11: once start() has failed and re-raised, the adapter is not running,
\* its connection and bot tables are empty, and no connection that this
\* start() connected is still connected.
C11_FailedStartLeavesNothingConnected ==
  StartRaised =>
    /\ ~running
    /\ connections = <<>>
    /\ bots = {}
    /\ \A i \in Entries : conn[i] # "connected"

\* C12: a stop() that ends leaves the adapter not running with both tables
\* empty, and has called disconnect() on every connection that was tracked,
\* whether or not an earlier disconnect() raised; stop() on a stopped adapter
\* changes nothing.
C12_StopClearsAndDisconnectsAll ==
  [][ /\ ((AStop \/ apc.op = "stop") /\ apc'.op = "idle") =>
           /\ ~running'
           /\ connections' = <<>>
           /\ bots' = {}
           /\ alast' # "raised" \/ apc.inStart
           /\ \A c \in Tracked(connections) :
                /\ \E n \in 1..Len(stopLog') : stopLog'[n].conn = c
                /\ conn'[c] = "closed"
      /\ (AStop /\ alast = "stopped") =>
           /\ apc'.op = "idle"
           /\ UNCHANGED <<conn, connections, bots, running>>
    ]_vars

\* stop() has ended on an adapter that tracked two connections: disconnect()
\* of the first raised and the second was disconnected all the same.
C12_Witness ==
  /\ apc.op = "idle"
  /\ alast = "stopped"
  /\ Len(stopLog) = 2
  /\ stopLog[1].raised
  /\ stopLog[1].conn # stopLog[2].conn
  /\ connections = <<>>
  /\ ~running

\* ================================================================ Matcher registry
\* Matcher.handlers: what each handler does when called, in the order added.
HandlerLists == {<<"ok">>, <<"raise">>, <<"ok", "raise", "ok">>}

\* Some handler of the list raises.
Raises(hs) == \E n \in 1..Len(hs) : hs[n] = "raise"

\* Matcher.run going on to the next handler after one has raised.
CalledAll(hs) == Len(hs)

\* Matcher.run: the for loop is inside the try, so the handlers called are
\* those up to and including the first that raises.
Called(hs) ==
  IF Raises(hs) THEN CHOOSE n \in 1..Len(hs) : hs[n] = "raise" /\ ~Raises(SubSeq(hs, 1, n - 1))
  ELSE Len(hs)

\* A Matcher: its registration number, the post type it is for ("" for any),
\* its priority and block flag, what the rule added to check_perm does when
\* the type fits ("pass", "raise"), and what its handlers do.
MatcherKinds ==
  [type : {"", "message"}, priority : 1..MaxPriority, block : BOOLEAN,
   rule : {"pass", "raise"}, handlers : HandlerLists]

MatcherEvents == { [post_type |-> t] : t \in {"message", "notice"} }

\* A sort that is not stable: the new Matcher goes before those of its priority.
InsertBeforeEqual(sorted, m) ==
  LET before == SelectSeq(sorted, LAMBDA x : x.priority < m.priority)
      after == SelectSeq(sorted, LAMBDA x : x.priority >= m.priority)
  IN  before \o <<m>> \o after

\* list.sort(key=priority) is stable: equal priorities keep their order.
InsertByPriority(sorted, m) ==
  LET before == SelectSeq(sorted, LAMBDA x : x.priority <= m.priority)
      after == SelectSeq(sorted, LAMBDA x : x.priority > m.priority)
  IN  before \o <<m>> \o after

RECURSIVE SortByPriority(_)
SortByPriority(ms) ==
  IF ms = <<>> THEN <<>>
  ELSE InsertByPriority(SortByPriority(SubSeq(ms, 1, Len(ms) - 1)), ms[Len(ms)])

\* check_perm, with the rule a decorator of the on_* family adds to it.
CheckPerm(m, e) ==
  IF m.type # "" /\ e.post_type # m.type THEN "fail" ELSE m.rule

\* Matcher.run from a mutant: a failing handler still reports the block flag.
RunReportsBlockOnFailure(m) == m.block

\* Matcher.run: the block flag once every handler returned, False when one raised.
Run(m) == IF Raises(m.handlers) THEN FALSE ELSE m.block

\* handle_event from a mutant: nothing around check_perm is caught.
HandleEventCatchesNothing(e) == FALSE

\* handle_event: the except clause around check_perm and run.
HandleEventCatches(e) == e = "Exception"

\* on(...) and the decorators built on it: append, then sort by priority.
\* Registration happens while no event is being handled; the record of the
\* last handle_event is about the registry it ran on and is dropped.
MRegister(k) ==
  /\ mpc # "running"
  /\ Len(matchers) < MaxMatchers
  /\ matchers' = SortByPriority(Append(matchers,
                   [id |-> Len(matchers) + 1, type |-> k.type, priority |-> k.priority,
                    block |-> k.block, rule |-> k.rule, handlers |-> k.handlers]))
  /\ mpc' = "idle"
  /\ mevent' = NoEvent
  /\ mpos' = 0
  /\ mran' = <<>>
  /\ UNCHANGED nonMatcherVars

\* handle_event(e) is called.
MHandleEvent(e) ==
  /\ mpc # "running"
  /\ mevent' = e
  /\ mran' = <<>>
  /\ mpos' = 1
  /\ mpc' = IF matchers = <<>> THEN "returned" ELSE "running"
  /\ UNCHANGED matchers
  /\ UNCHANGED nonMatcherVars

\* handle_event: one turn of its loop.
MStep ==
  /\ mpc = "running"
  /\ LET m == matchers[mpos]
         perm == CheckPerm(m, mevent)
         blocked == perm = "pass" /\ Run(m)
         escaped == perm = "raise" /\ ~HandleEventCatches("Exception")
     IN  /\ mran' = CASE perm = "raise" ->
                           Append(mran, [id |-> m.id, what |-> "check_raised", calls |-> 0])
                      [] perm = "pass" /\ Raises(m.handlers) ->
                           Append(mran, [id |-> m.id, what |-> "handler_raised",
                                         calls |-> Called(m.handlers)])
                      [] perm = "pass" /\ ~Raises(m.handlers) ->
                           Append(mran, [id |-> m.id, what |-> "ran",
                                         calls |-> Called(m.handlers)])
                      [] OTHER -> mran
         /\ mpc' = CASE escaped -> "raised"
                     [] ~escaped /\ (blocked \/ mpos = Len(matchers)) -> "returned"
                     [] OTHER -> "running"
         /\ mpos' = IF escaped \/ blocked THEN mpos ELSE mpos + 1
  /\ UNCHANGED <<matchers, mevent>>
  /\ UNCHANGED nonMatcherVars

MatcherInit ==
  /\ ConnAbsent
  /\ LoopAbsent
  /\ RaceAbsent
  /\ FanAbsent
  /\ FrameAbsent
  /\ BufAbsent
  /\ RetryAbsent
  /\ RateAbsent
  /\ LogAbsent
  /\ CfgAbsent
  /\ MsgAbsent
  /\ CmdAbsent
  /\ SendAbsent
  /\ ParseAbsent
  /\ AdapterAbsent
  /\ MatcherAbsent
  /\ ClientAbsent

MatcherNext ==
  \/ \E k \in MatcherKinds : MRegister(k)
  \/ \E e \in MatcherEvents : MHandleEvent(e)
  \/ MStep

MatcherSpec == MatcherInit /\ [][MatcherNext]_vars

\* ---- claims on the Matcher registry
\* The registry index of the Matcher with registration number id.
IndexOf(id) == CHOOSE n \in 1..Len(matchers) : matchers[n].id = id

\* The Matchers handle_event evaluated beyond a failed check, as a set of ids.
RanIds == { mran[j].id : j \in 1..Len(mran) }

\* The Matcher at registry index n passes its check for the event.
Passes(n) == CheckPerm(matchers[n], mevent) = "pass"

\* C15 as claimed: for an event, once a block-flagged Matcher whose check
\* passes has run, no Matcher later in the registry order runs.
C15_BlockStopsLaterMatchers ==
  \A j, k \in 1..Len(mran) :
    (j < k /\ mran[j].what # "check_raised") => ~matchers[IndexOf(mran[j].id)].block

\* C15 amended: once a block-flagged Matcher whose check passes has run its
\* handler without a failure, no Matcher later in the registry order runs
\* (one whose handler failed does not block); Matchers run in registry order,
\* which is ascending priority, and when handle_event has returned a passing
\* Matcher has run exactly if no earlier passing Matcher blocked.
C15_BlockStopsLaterUnlessHandlerFailed ==
  /\ \A j, k \in 1..Len(mran) :
       j < k => /\ ~(mran[j].what = "ran" /\ matchers[IndexOf(mran[j].id)].block)
                /\ IndexOf(mran[j].id) < IndexOf(mran[k].id)
                /\ matchers[IndexOf(mran[j].id)].priority
                     <= matchers[IndexOf(mran[k].id)].priority
  /\ mpc = "returned" =>
       \A n \in 1..Len(matchers) :
         Passes(n) =>
           ( matchers[n].id \in RanIds
             <=> ~\E b \in 1..(n - 1) :
                    /\ Passes(b)
                    /\ matchers[b].block
                    /\ ~Raises(matchers[b].handlers) )

\* handle_event returned with two Matchers passing the check: the first,
\* block-flagged, ran its handler, and the second was not run.
C15_Witness ==
  /\ mpc = "returned"
  /\ Len(matchers) = 2
  /\ Passes(1) /\ Passes(2)
  /\ matchers[1].block
  /\ Len(mran) = 1
  /\ mran[1].id = matchers[1].id
  /\ mran[1].what = "ran"

\* C16: handle_event never raises; a failure inside a Matcher's handler or
\* check is caught, and the loop goes on to the next Matcher of the registry.
C16_MatcherFailureIsolated ==
  [][ /\ mpc' # "raised"
      /\ (MStep /\ Len(mran') > Len(mran)
            /\ mran'[Len(mran')].what \in {"handler_raised", "check_raised"}) =>
           IF mpos < Len(matchers)
           THEN mpc' = "running" /\ mpos' = mpos + 1
           ELSE mpc' = "returned"
    ]_vars

\* handle_event returned after a failing check and a failing handler, both
\* followed by the evaluation of the next Matcher.
C16_Witness ==
  /\ mpc = "returned"
  /\ \E j, k \in 1..Len(mran) :
       /\ j < k
       /\ mran[j].what \in {"check_raised", "handler_raised"}
       /\ mran[k].what = "ran"

\* ================================================================ OneBotClient
\* The client sees its adapter through start() and stop(), which return or
\* raise (AdapterSpec), and through the events the adapter's emitter hands to
\* the dispatchers registered on it; it sees the Matcher registry through
\* handle_event (MatcherSpec).  Lifecycle calls on one client do not overlap,
\* and handlers are registered while no event is being dispatched.

ClientEvents == { [post_type |-> t] : t \in PerType \cup {"other"} }

\* The channels handlers are registered on in the model: the wildcard
\* channel and two of the per-type channels.
RegisterChannels == {"event", "message", "notice"}

\* _handle_and_dispatch_event from a mutant: the wildcard channel only.
ChannelsWildcardOnly(e) == <<"event">>

\* _handle_and_dispatch_event: the channels it calls for an event, in order.
Channels(e) ==
  IF e.post_type \in PerType THEN <<"event", e.post_type>> ELSE <<"event">>

\* _call_handlers from a mutant: a handler's failure is not caught.
CallHandlersCatchesNothing(e) == FALSE

\* _call_handlers: the except clause around each handler.
CallHandlersCatches(e) == e = "Exception"

\* start() from a mutant: no check of the running flag.
AlreadyRunningNeverChecked == FALSE

\* start(): the check of the running flag.
AlreadyRunning == clientRunning

\* The next handler to call from channel index c, list index p on: exhausted
\* and empty channels are passed over; past the last channel comes handle_event.
RECURSIVE NextPoint(_, _, _)
NextPoint(e, c, p) ==
  IF c > Len(Channels(e)) THEN [c |-> c, p |-> 0]
  ELSE IF p <= Len(handlers[Channels(e)[c]]) THEN [c |-> c, p |-> p]
  ELSE NextPoint(e, c + 1, 1)

TotalHandlers == Len(handlers["event"]) + Len(handlers["message"])
                   + Len(handlers["notice"]) + Len(handlers["request"])
                   + Len(handlers["meta_event"])

\* on_event / on_message / on_notice / ...: append to the channel's list.
COn(ch, raises) ==
  /\ dstage # "running"
  /\ TotalHandlers < MaxHandlers
  /\ handlers' = [handlers EXCEPT ![ch] =
                    Append(@, [id |-> TotalHandlers + 1, raises |-> raises])]
  /\ dstage' = "idle"
  /\ devent' = NoEvent
  /\ dpoint' = [c |-> 0, p |-> 0]
  /\ dtrace' = <<>>
  /\ UNCHANGED <<clientRunning, hasConfig, adapters, cpc, clast, dleft>>
  /\ UNCHANGED nonClientVars

\* start(config?) is called: a running client warns and returns; without a
\* configuration it raises; otherwise it builds an adapter, registers the
\* dispatcher on it and awaits adapter.start().
CStart(given) ==
  /\ cpc = "idle"
  /\ IF AlreadyRunning
     THEN /\ clast' = "noop"
          /\ UNCHANGED <<hasConfig, adapters, cpc>>
     ELSE IF ~(given \/ hasConfig)
     THEN /\ clast' = "raised"
          /\ UNCHANGED <<hasConfig, adapters, cpc>>
     ELSE /\ Len(adapters) < MaxAdapters
          /\ hasConfig' = TRUE
          /\ adapters' = Append(adapters, [state |-> "starting", dispatchers |-> 1])
          /\ cpc' = "start"
          /\ UNCHANGED clast
  /\ UNCHANGED <<clientRunning, handlers, devent, dstage, dpoint, dleft, dtrace>>
  /\ UNCHANGED nonClientVars

\* adapter.start() returns: the client marks itself running.
CStartOk ==
  /\ cpc = "start"
  /\ adapters' = [adapters EXCEPT ![Len(adapters)].state = "running"]
  /\ clientRunning' = TRUE
  /\ cpc' = "idle"
  /\ clast' = "started"
  /\ UNCHANGED <<hasConfig, handlers, devent, dstage, dpoint, dleft, dtrace>>
  /\ UNCHANGED nonClientVars

\* adapter.start() raises, having stopped the adapter: start() raises too.
CStartFail ==
  /\ cpc = "start"
  /\ adapters' = [adapters EXCEPT ![Len(adapters)].state = "stopped"]
  /\ cpc' = "idle"
  /\ clast' = "raised"
  /\ UNCHANGED <<clientRunning, hasConfig, handlers, devent, dstage, dpoint, dleft, dtrace>>
  /\ UNCHANGED nonClientVars

\* stop() (or leaving the async-with scope) is called: a client that is not
\* running returns; a running one clears its flag and awaits adapter.stop().
CStop ==
  /\ cpc = "idle"
  /\ IF ~clientRunning
     THEN /\ clast' = "noop"
          /\ UNCHANGED <<clientRunning, adapters, cpc>>
     ELSE /\ clientRunning' = FALSE
          /\ adapters' = [adapters EXCEPT ![Len(adapters)].state = "stopping"]
          /\ cpc' = "stop"
          /\ UNCHANGED clast
  /\ UNCHANGED <<hasConfig, handlers, devent, dstage, dpoint, dleft, dtrace>>
  /\ UNCHANGED nonClientVars

\* adapter.stop() returns.
CStopDone ==
  /\ cpc = "stop"
  /\ adapters' = [adapters EXCEPT ![Len(adapters)].state = "stopped"]
  /\ cpc' = "idle"
  /\ clast' = "stopped"
  /\ UNCHANGED <<clientRunning, hasConfig, handlers, devent, dstage, dpoint, dleft, dtrace>>
  /\ UNCHANGED nonClientVars

\* The adapter's emitter calls the first dispatcher registered on its event
\* channel for an event that one of its connections read.
CDeliver(e) ==
  /\ dstage # "running"
  /\ adapters # <<>>
  /\ adapters[Len(adapters)].state \in {"starting", "running", "stopping"}
  /\ devent' = e
  /\ dtrace' = <<>>
  /\ dleft' = adapters[Len(adapters)].dispatchers - 1
  /\ dstage' = "running"
  /\ dpoint' = NextPoint(e, 1, 1)
  /\ UNCHANGED <<clientRunning, hasConfig, adapters, cpc, clast, handlers>>
  /\ UNCHANGED nonClientVars

\* _call_handlers: the handler the dispatcher is at is called, and returns
\* or raises.
CCallHandler ==
  /\ dstage = "running"
  /\ dpoint.c <= Len(Channels(devent))
  /\ LET ch == Channels(devent)[dpoint.c]
         h == handlers[ch][dpoint.p]
         escaped == h.raises /\ ~CallHandlersCatches("Exception")
     IN  /\ dtrace' = Append(dtrace, [ch |-> ch, id |-> h.id, raised |-> h.raises])
         /\ dstage' = IF escaped THEN "raised" ELSE "running"
         /\ dpoint' = IF escaped THEN dpoint ELSE NextPoint(devent, dpoint.c, dpoint.p + 1)
  /\ UNCHANGED <<clientRunning, hasConfig, adapters, cpc, clast, handlers, devent, dleft>>
  /\ UNCHANGED nonClientVars

\* The dispatcher is past its channels: handle_event(event) is awaited and
\* the dispatcher returns; the emitter then calls the next dispatcher
\* registered on the adapter, if there is one.
CForward ==
  /\ dstage = "running"
  /\ dpoint.c > Len(Channels(devent))
  /\ dtrace' = Append(dtrace, [ch |-> "matcher", id |-> 0, raised |-> FALSE])
  /\ IF dleft > 0
     THEN /\ dleft' = dleft - 1
          /\ dpoint' = NextPoint(devent, 1, 1)
          /\ UNCHANGED dstage
     ELSE /\ dstage' = "returned"
          /\ UNCHANGED <<dleft, dpoint>>
  /\ UNCHANGED <<clientRunning, hasConfig, adapters, cpc, clast, handlers, devent>>
  /\ UNCHANGED nonClientVars

ClientInit ==
  /\ ConnAbsent
  /\ LoopAbsent
  /\ RaceAbsent
  /\ FanAbsent
  /\ FrameAbsent
  /\ BufAbsent
  /\ RetryAbsent
  /\ RateAbsent
  /\ LogAbsent
  /\ CfgAbsent
  /\ MsgAbsent
  /\ CmdAbsent
  /\ SendAbsent
  /\ ParseAbsent
  /\ AdapterAbsent
  /\ MatcherAbsent
  /\ clientRunning = FALSE
  /\ hasConfig \in BOOLEAN
  /\ adapters = <<>>
  /\ cpc = "idle"
  /\ clast = "none"
  /\ handlers = [ch \in ChannelNames |-> <<>>]
  /\ devent = NoEvent
  /\ dstage = "idle"
  /\ dpoint = [c |-> 0, p |-> 0]
  /\ dleft = 0
  /\ dtrace = <<>>

ClientNext ==
  \/ \E ch \in RegisterChannels, raises \in BOOLEAN : COn(ch, raises)
  \/ \E given \in BOOLEAN : CStart(given)
  \/ CStartOk
  \/ CStartFail
  \/ CStop
  \/ CStopDone
  \/ \E e \in ClientEvents : CDeliver(e)
  \/ CCallHandler
  \/ CForward

ClientSpec == ClientInit /\ [][ClientNext]_vars

\* ---- claims on the client
\* The calls a channel's list stands for, in list order.
CallsOf(ch) ==
  [n \in 1..Len(handlers[ch]) |->
     [ch |-> ch, id |-> handlers[ch][n].id, raised |-> handlers[ch][n].raises]]

MatcherCall == [ch |-> "matcher", id |-> 0, raised |-> FALSE]

\* What one dispatch of event e is claimed to call, in order.
ClaimedCalls(e) ==
  CallsOf("event")
    \o (IF e.post_type \in PerType THEN CallsOf(e.post_type) ELSE <<>>)
    \o <<MatcherCall>>

\* Every list holds its handlers in registration order.
RegistrationOrder ==
  \A ch \in ChannelNames : \A m, n \in 1..Len(handlers[ch]) :
    m < n => handlers[ch][m].id < handlers[ch][n].id

\* C13: the calls made for an event are, in this order, the wildcard
\* handlers in registration order, the handlers of the channel of its post
\* type in registration order (none for any other post type), and last the
\* Matcher registry; a dispatch that returned has made all of them.
C13_DispatchOrder ==
  /\ RegistrationOrder
  /\ dstage \in {"running", "returned"} =>
       /\ Len(dtrace) <= Len(ClaimedCalls(devent))
       /\ dtrace = SubSeq(ClaimedCalls(devent), 1, Len(dtrace))
       /\ \A n \in 1..Len(dtrace) :
            dtrace[n].ch \in PerType => dtrace[n].ch = devent.post_type
  /\ dstage = "returned" => dtrace = ClaimedCalls(devent)

\* A dispatch returned having called two wildcard handlers, then a handler
\* of the channel of the event, then the Matcher registry.
C13_Witness ==
  /\ dstage = "returned"
  /\ Len(dtrace) = 4
  /\ dtrace[1].ch = "event" /\ dtrace[2].ch = "event"
  /\ dtrace[3].ch = devent.post_type
  /\ dtrace[4] = MatcherCall

\* C14: a handler that raises does not end the dispatch: the dispatcher
\* never lets a failure out, goes on after the failing call, and when it
\* has returned it has called every handler of the wildcard channel and of
\* the event's channel, and the Matcher registry.
C14_HandlerFailureIsolated ==
  [][ /\ dstage' # "raised"
      /\ (CCallHandler /\ dtrace'[Len(dtrace')].raised) =>
           /\ dstage' = "running"
           /\ dpoint' = NextPoint(devent, dpoint.c, dpoint.p + 1)
      /\ dstage' = "returned" =>
           /\ \A ch \in {"event"} \cup ({devent'.post_type} \cap PerType) :
                \A n \in 1..Len(handlers'[ch]) :
                  \E k \in 1..Len(dtrace') :
                    dtrace'[k].ch = ch /\ dtrace'[k].id = handlers'[ch][n].id
           /\ \E k \in 1..Len(dtrace') : dtrace'[k] = MatcherCall
    ]_vars

\* A dispatch returned although its first wildcard handler raised: a later
\* wildcard handler, a handler of the event's channel and the Matcher
\* registry were called after it.
C14_Witness ==
  /\ dstage = "returned"
  /\ Len(dtrace) = 4
  /\ dtrace[1].raised /\ dtrace[1].ch = "event"
  /\ dtrace[2].ch = "event"
  /\ dtrace[3].ch \in PerType
  /\ dtrace[4] = MatcherCall

\* C17: a running client has exactly one adapter that is not stopped, the
\* one it holds, with exactly one dispatcher registered on it; start() on a
\* running client builds no adapter and registers no dispatcher; no handler
\* is called twice for one event.
C17_OneAdapterOneDispatcher ==
  [][ /\ clientRunning' =>
           /\ adapters' # <<>>
           /\ adapters'[Len(adapters')].state = "running"
           /\ adapters'[Len(adapters')].dispatchers = 1
           /\ \A n \in 1..(Len(adapters') - 1) : adapters'[n].state = "stopped"
      /\ (clientRunning /\ \E given \in BOOLEAN : CStart(given)) =>
           UNCHANGED <<adapters, clientRunning>>
      /\ \A j, k \in 1..Len(dtrace') : j # k => dtrace'[j] # dtrace'[k]
    ]_vars

\* A client that was started, stopped and started again is running, start()
\* was then called once more, and an event was dispatched to a handler.
C17_Witness ==
  /\ clientRunning
  /\ Len(adapters) = 2
  /\ clast = "noop"
  /\ dstage = "returned"
  /\ Len(dtrace) >= 2


\* ---------------------------------------------------------------- OneBotBot
\* call_api of a bot bound to the connection above.  A call is numbered like
\* a send_request; pc and outcome describe the caller of call_api.
CallFailedText == "API call failed"

\* CallApiOutcome letting whatever send_request raised through.
CallApiPassesFailures(o) == o

\* What call_api gives its caller for what send_request gave it: a value is
\* returned, CancelledError is not an Exception and passes the except clause,
\* everything else is replaced by ActionFailed(f"API调用失败: {e}").
CallApiOutcome(o) ==
  CASE o.kind = "value" -> o
    [] o.kind = "CancelledError" -> o
    [] OTHER -> [kind |-> "ActionFailed", res |-> NoResp, err |-> CallFailedText]

\* call_api ending in its first run: the connection is not connected
\* (ApiNotAvailable before send_request is reached), or it is connected with
\* no socket object and send_request's own refusal is wrapped.
CallApiRefused ==
  /\ nreq < MaxReq
  /\ ~IsConnected \/ ws = "none"
  /\ nreq' = nreq + 1
  /\ pc' = [pc EXCEPT ![nreq + 1] = "done"]
  /\ outcome' = [outcome EXCEPT ![nreq + 1] =
                   IF ~IsConnected
                   THEN [kind |-> "ApiNotAvailable", res |-> NoResp, err |-> ""]
                   ELSE CallApiOutcome([kind |-> "NetworkException", res |-> NoResp,
                                        err |-> NotConnectedText])]
  /\ UNCHANGED <<futures, fut, timedOut, last>>
  /\ UNCHANGED connVars
  /\ UNCHANGED appVars

\* call_api on a connected connection: send_request writes the frame and
\* suspends in fetch.
CallApiWritten == SendRequestWritten

\* call_api on a connected connection: send_request suspends in send_json.
CallApiSuspends == SendRequestSuspends

\* send_json raises in the suspended send_request: call_api wraps it.
CallApiSendFails(i) ==
  /\ pc[i] = "writing"
  /\ ws # "open"
  /\ pc' = [pc EXCEPT ![i] = "done"]
  /\ outcome' = [outcome EXCEPT ![i] =
                   CallApiOutcome([kind |-> "SendError", res |-> NoResp, err |-> ""])]
  /\ UNCHANGED <<futures, fut, timedOut, nreq, last>>
  /\ UNCHANGED connVars
  /\ UNCHANGED appVars

\* fetch resumes in send_request, which returns or raises into call_api.
CallApiResume(i) ==
  /\ pc[i] = "waiting"
  /\ fut[i].st # "pending"
  /\ futures' = Pop(futures, i)
  /\ outcome' = [outcome EXCEPT ![i] = CallApiOutcome(FetchOutcome(fut[i], timedOut[i]))]
  /\ pc' = [pc EXCEPT ![i] = "done"]
  /\ UNCHANGED <<fut, timedOut, nreq, last>>
  /\ UNCHANGED connVars
  /\ UNCHANGED appVars

BotInit == Init

BotNext ==
  \/ ConnectOk
  \/ ConnectFail
  \/ DisconnectStart
  \/ DisconnectFinish
  \/ CallApiRefused
  \/ CallApiWritten
  \/ CallApiSuspends
  \/ \E i \in Ids : SendCompletes(i)
  \/ \E i \in Ids : CallApiSendFails(i)
  \/ \E f \in PeerFrames : ReceiveFrame(f)
  \/ ReceiveLoopExit
  \/ HeartbeatExit
  \/ HandleMessage
  \/ \E i \in Ids : FetchTimeout(i)
  \/ \E i \in Ids : CallApiResume(i)

BotSpec == BotInit /\ [][BotNext]_vars

\* The future of call i holds the exception of a failed-status response, or
\* the timer of its fetch has fired.
SendRequestFailure(i) ==
  \/ fut[i].st = "exception"
  \/ fut[i].st = "cancelled" /\ timedOut[i]

\* C18: call_api on a connection that is not connected fails at once with
\* ApiNotAvailable, writes no frame and registers no slot; a send_request that
\* ends with a failed-status response or a timeout ends the call_api with
\* ActionFailed, never with NetworkException and never with a value.
C18_CallApiFailures ==
  [][ /\ (SendRequestCalled /\ ~IsConnected) =>
            /\ pc'[nreq'] = "done"
            /\ outcome'[nreq'].kind = "ApiNotAvailable"
            /\ wrote' = wrote
            /\ futures' = futures
            /\ fut' = fut
      /\ \A i \in Ids :
           (pc[i] = "waiting" /\ pc'[i] = "done" /\ SendRequestFailure(i)) =>
             outcome'[i] = [kind |-> "ActionFailed", res |-> NoResp, err |-> CallFailedText]
    ]_vars

\* C18 witness: one call_api was refused on a connection that is not
\* connected, and another, sent while it was connected, ended with
\* ActionFailed on a failed-status response or a timeout.
C18_Witness ==
  \E i, j \in Ids :
    /\ pc[i] = "done" /\ outcome[i].kind = "ApiNotAvailable"
    /\ pc[j] = "done" /\ outcome[j].kind = "ActionFailed"
    /\ j \in wrote
    /\ SendRequestFailure(j)


\* ------------------------------------------------------ OneBotBot.send_msg
\* The arguments send_msg is called with: "bogus" stands for every
\* message_type other than the two known ones, the ids are None or an integer
\* (0 is an integer), the message is None or a string without CQ codes.
MessageTypes == {"private", "group", "bogus"}
IdArgs == {NoneId} \cup (0..MaxUserId)
MessageArgs == {NoneMessage, "", "hi"}

\* Message(text).to_dict() for a text without CQ codes: one text segment.
MessageData(m) == <<[type |-> "text", text |-> m]>>

\* send_private_msg(user_id, message): the call_api call it makes.
SendPrivateMsg(u, m) ==
  [action |-> "send_private_msg", key |-> "user_id", target |-> u,
   message |-> MessageData(m)]

\* send_group_msg(group_id, message): the call_api call it makes.
SendGroupMsg(g, m) ==
  [action |-> "send_group_msg", key |-> "group_id", target |-> g,
   message |-> MessageData(m)]

\* IdIsNone testing truth (`not x`) instead of identity with None.
IdIsNoneWhenZero(x) == x \in {NoneId, 0}

\* The test send_msg applies to user_id and group_id: `x is None`.
IdIsNone(x) == x = NoneId

\* The test send_msg applies to message: `message is None`.
MessageIsNone(m) == m = NoneMessage

\* send_msg(message_type, user_id, group_id, message): how it ends and the
\* call_api calls it makes.
SendMsgResult(t, u, g, m) ==
  IF t = "private"
  THEN IF IdIsNone(u) \/ MessageIsNone(m)
       THEN [result |-> "ValueError", calls |-> <<>>]
       ELSE [result |-> "delegated", calls |-> <<SendPrivateMsg(u, m)>>]
  ELSE IF t = "group"
  THEN IF IdIsNone(g) \/ MessageIsNone(m)
       THEN [result |-> "ValueError", calls |-> <<>>]
       ELSE [result |-> "delegated", calls |-> <<SendGroupMsg(g, m)>>]
  ELSE [result |-> "ValueError", calls |-> <<>>]

SendMsg(t, u, g, m) ==
  /\ Len(smCalls) < MaxSends
  /\ smArgs' = [message_type |-> t, user_id |-> u, group_id |-> g, message |-> m]
  /\ smResult' = SendMsgResult(t, u, g, m).result
  /\ smCalls' = smCalls \o SendMsgResult(t, u, g, m).calls
  /\ UNCHANGED nonSendVars

SendMsgInit == Init

SendMsgNext ==
  \E t \in MessageTypes, u \in IdArgs, g \in IdArgs, m \in MessageArgs :
    SendMsg(t, u, g, m)

SendMsgSpec == SendMsgInit /\ [][SendMsgNext]_vars

\* The arguments are ones for which send_msg is to fail.
SendMsgInvalid(a) ==
  \/ a.message_type = "private" /\ a.user_id = NoneId
  \/ a.message_type = "group" /\ a.group_id = NoneId
  \/ a.message = NoneMessage
  \/ a.message_type \notin {"private", "group"}

\* C19: a send_msg call with message_type "private" and no user_id, "group"
\* and no group_id, no message, or any other message_type ends with ValueError
\* and makes no call_api call; every other call makes exactly one call_api
\* call, send_private_msg to the given user_id or send_group_msg to the given
\* group_id.
C19_SendMsgValidatesAndDelegates ==
  [][ SendMsgNext =>
      LET a == smArgs' IN
        IF SendMsgInvalid(a)
        THEN smResult' = "ValueError" /\ smCalls' = smCalls
        ELSE /\ smResult' = "delegated"
             /\ Len(smCalls') = Len(smCalls) + 1
             /\ LET c == smCalls'[Len(smCalls')] IN
                  IF a.message_type = "private"
                  THEN c.action = "send_private_msg" /\ c.key = "user_id"
                       /\ c.target = a.user_id
                  ELSE c.action = "send_group_msg" /\ c.key = "group_id"
                       /\ c.target = a.group_id
    ]_vars

\* C19 witness: a private send to user 0 with an empty text was delegated, and
\* after it a group send without group_id was refused with nothing added.
C19_Witness ==
  /\ Len(smCalls) = 1
  /\ smCalls[1].action = "send_private_msg"
  /\ smCalls[1].target = 0
  /\ smCalls[1].message[1].text = ""
  /\ smArgs.message_type = "group"
  /\ smArgs.group_id = NoneId
  /\ smResult = "ValueError"


\* ------------------------------------------------------------- parse_event
\* The dict parse_event is given: the value under "post_type", the value
\* under the secondary key of that post type (message_type, notice_type,
\* request_type, meta_event_type), the value under "sub_type", and the one
\* other field it lacks, if any.  NoTag is a key that is absent.
NoTag == "<absent>"
UnknownTag == "unknown"
PostTypes == {"message", "notice", "request", "meta_event"}
MessageTypeValues == {"private", "group"}
NoticeTypeValues ==
  {"group_upload", "group_admin", "group_decrease", "group_increase",
   "group_ban", "friend_add", "group_recall", "friend_recall", "notify",
   "group_card", "offline_file", "essence"}
RequestTypeValues == {"friend", "group"}
MetaEventTypeValues == {"lifecycle", "heartbeat"}
SubTypeValues == {"group_card", "poke"}

OtherFields ==
  {"self_id", "message_id", "user_id", "message", "group_id", "file",
   "operator_id", "duration", "sender_id", "card_new", "card_old", "comment",
   "flag", "status", "interval"}

EventData ==
  [post_type : PostTypes \cup {UnknownTag, NoTag},
   tag2 : MessageTypeValues \cup NoticeTypeValues \cup RequestTypeValues
            \cup MetaEventTypeValues \cup {UnknownTag, NoTag},
   sub_type : SubTypeValues \cup {NoTag},
   missing : OtherFields \cup {"none"}]

\* The keys the dict holds; "secondary" is the secondary key of its post type.
Present(d) ==
  (OtherFields \ {d.missing})
    \cup (IF d.post_type # NoTag THEN {"post_type"} ELSE {})
    \cup (IF d.tag2 # NoTag THEN {"secondary"} ELSE {})
    \cup (IF d.sub_type # NoTag THEN {"sub_type"} ELSE {})

\* The fields declared with Field(...) in each class and its bases, less those
\* the class gives a default.
Required ==
  [Event |-> {"self_id", "post_type"},
   MessageEvent |-> {"self_id", "secondary", "sub_type", "message_id", "user_id", "message"},
   PrivateMessageEvent |-> {"self_id", "sub_type", "message_id", "user_id", "message"},
   GroupMessageEvent |-> {"self_id", "sub_type", "message_id", "user_id", "message", "group_id"},
   NoticeEvent |-> {"self_id", "secondary"},
   GroupUploadNoticeEvent |-> {"self_id", "group_id", "user_id", "file"},
   GroupAdminNoticeEvent |-> {"self_id", "sub_type", "group_id", "user_id"},
   GroupDecreaseNoticeEvent |-> {"self_id", "sub_type", "group_id", "operator_id", "user_id"},
   GroupIncreaseNoticeEvent |-> {"self_id", "sub_type", "group_id", "operator_id", "user_id"},
   GroupBanNoticeEvent |-> {"self_id", "sub_type", "group_id", "operator_id", "user_id", "duration"},
   FriendAddNoticeEvent |-> {"self_id", "user_id"},
   GroupRecallNoticeEvent |-> {"self_id", "group_id", "user_id", "operator_id", "message_id"},
   FriendRecallNoticeEvent |-> {"self_id", "user_id", "message_id"},
   NotifyNoticeEvent |-> {"self_id", "sub_type", "group_id", "user_id"},
   GroupCardNoticeEvent |-> {"self_id", "group_id", "user_id", "card_new", "card_old"},
   OfflineFileNoticeEvent |-> {"self_id", "user_id", "file"},
   EssenceNoticeEvent |-> {"self_id", "sub_type", "group_id", "sender_id", "operator_id", "message_id"},
   RequestEvent |-> {"self_id", "secondary"},
   FriendRequestEvent |-> {"self_id", "user_id", "comment", "flag"},
   GroupRequestEvent |-> {"self_id", "sub_type", "group_id", "user_id", "comment", "flag"},
   MetaEvent |-> {"self_id", "secondary"},
   LifecycleMetaEvent |-> {"self_id", "sub_type"},
   HeartbeatMetaEvent |-> {"self_id", "status", "interval"}]

\* cls.model_validate(data): the instance, or ValidationError when a required
\* field is absent.
ModelValidate(cls, d) ==
  IF cls \notin DOMAIN Required THEN cls
  ELSE IF Required[cls] \subseteq Present(d) THEN cls
  ELSE "ValidationError"

\* SelectShape with every final else raising instead of building the base.
SelectShapeRejectsUnknown(post, tag2, sub) ==
  IF post = "message"
  THEN IF tag2 = "private" THEN "PrivateMessageEvent"
       ELSE IF tag2 = "group" THEN "GroupMessageEvent"
       ELSE "ValueError"
  ELSE IF post = "notice"
  THEN IF tag2 = "group_upload" THEN "GroupUploadNoticeEvent"
       ELSE IF tag2 = "group_admin" THEN "GroupAdminNoticeEvent"
       ELSE IF tag2 = "group_decrease" THEN "GroupDecreaseNoticeEvent"
       ELSE IF tag2 = "group_increase" THEN "GroupIncreaseNoticeEvent"
       ELSE IF tag2 = "group_ban" THEN "GroupBanNoticeEvent"
       ELSE IF tag2 = "friend_add" THEN "FriendAddNoticeEvent"
       ELSE IF tag2 = "group_recall" THEN "GroupRecallNoticeEvent"
       ELSE IF tag2 = "friend_recall" THEN "FriendRecallNoticeEvent"
       ELSE IF tag2 = "notify"
            THEN IF sub = "group_card" THEN "GroupCardNoticeEvent"
                 ELSE "ValueError"
       ELSE IF tag2 = "offline_file" THEN "OfflineFileNoticeEvent"
       ELSE IF tag2 = "essence" THEN "EssenceNoticeEvent"
       ELSE "ValueError"
  ELSE IF post = "request"
  THEN IF tag2 = "friend" THEN "FriendRequestEvent"
       ELSE IF tag2 = "group" THEN "GroupRequestEvent"
       ELSE "ValueError"
  ELSE IF post = "meta_event"
  THEN IF tag2 = "lifecycle" THEN "LifecycleMetaEvent"
       ELSE IF tag2 = "heartbeat" THEN "HeartbeatMetaEvent"
       ELSE "ValueError"
  ELSE "ValueError"

\* The class parse_event picks, by its if / elif chain.
SelectShape(post, tag2, sub) ==
  IF post = "message"
  THEN IF tag2 = "private" THEN "PrivateMessageEvent"
       ELSE IF tag2 = "group" THEN "GroupMessageEvent"
       ELSE "MessageEvent"
  ELSE IF post = "notice"
  THEN IF tag2 = "group_upload" THEN "GroupUploadNoticeEvent"
       ELSE IF tag2 = "group_admin" THEN "GroupAdminNoticeEvent"
       ELSE IF tag2 = "group_decrease" THEN "GroupDecreaseNoticeEvent"
       ELSE IF tag2 = "group_increase" THEN "GroupIncreaseNoticeEvent"
       ELSE IF tag2 = "group_ban" THEN "GroupBanNoticeEvent"
       ELSE IF tag2 = "friend_add" THEN "FriendAddNoticeEvent"
       ELSE IF tag2 = "group_recall" THEN "GroupRecallNoticeEvent"
       ELSE IF tag2 = "friend_recall" THEN "FriendRecallNoticeEvent"
       ELSE IF tag2 = "notify"
            THEN IF sub = "group_card" THEN "GroupCardNoticeEvent"
                 ELSE "NotifyNoticeEvent"
       ELSE IF tag2 = "offline_file" THEN "OfflineFileNoticeEvent"
       ELSE IF tag2 = "essence" THEN "EssenceNoticeEvent"
       ELSE "NoticeEvent"
  ELSE IF post = "request"
  THEN IF tag2 = "friend" THEN "FriendRequestEvent"
       ELSE IF tag2 = "group" THEN "GroupRequestEvent"
       ELSE "RequestEvent"
  ELSE IF post = "meta_event"
  THEN IF tag2 = "lifecycle" THEN "LifecycleMetaEvent"
       ELSE IF tag2 = "heartbeat" THEN "HeartbeatMetaEvent"
       ELSE "MetaEvent"
  ELSE "Event"

\* parse_event(data)
ParseEvent(d) == ModelValidate(SelectShape(d.post_type, d.tag2, d.sub_type), d)

\* parse_event is called on the dict.
Parse ==
  /\ presult = "none"
  /\ presult' = ParseEvent(pdata)
  /\ UNCHANGED pdata
  /\ UNCHANGED nonParseVars

ParseInit ==
  /\ ConnAbsent
  /\ LoopAbsent
  /\ RaceAbsent
  /\ FanAbsent
  /\ FrameAbsent
  /\ BufAbsent
  /\ RetryAbsent
  /\ RateAbsent
  /\ LogAbsent
  /\ CfgAbsent
  /\ MsgAbsent
  /\ CmdAbsent
  /\ AdapterAbsent
  /\ MatcherAbsent
  /\ ClientAbsent
  /\ SendAbsent
  /\ pdata \in EventData
  /\ presult = "none"

ParseNext == Parse

ParseSpec == ParseInit /\ [][ParseNext]_vars

\* The shapes of the dispatch table, by secondary tag, and the ancestor each
\* post type falls back to.
MessageShapes == [private |-> "PrivateMessageEvent", group |-> "GroupMessageEvent"]
NoticeShapes ==
  [group_upload |-> "GroupUploadNoticeEvent", group_admin |-> "GroupAdminNoticeEvent",
   group_decrease |-> "GroupDecreaseNoticeEvent",
   group_increase |-> "GroupIncreaseNoticeEvent", group_ban |-> "GroupBanNoticeEvent",
   friend_add |-> "FriendAddNoticeEvent", group_recall |-> "GroupRecallNoticeEvent",
   friend_recall |-> "FriendRecallNoticeEvent", notify |-> "NotifyNoticeEvent",
   offline_file |-> "OfflineFileNoticeEvent", essence |-> "EssenceNoticeEvent"]
RequestShapes == [friend |-> "FriendRequestEvent", group |-> "GroupRequestEvent"]
MetaShapes == [lifecycle |-> "LifecycleMetaEvent", heartbeat |-> "HeartbeatMetaEvent"]
ShapeTable ==
  [message |-> [known |-> MessageShapes, ancestor |-> "MessageEvent"],
   notice |-> [known |-> NoticeShapes, ancestor |-> "NoticeEvent"],
   request |-> [known |-> RequestShapes, ancestor |-> "RequestEvent"],
   meta_event |-> [known |-> MetaShapes, ancestor |-> "MetaEvent"]]

\* The shape the dispatch table gives a dict: Event for a post type outside
\* the table, the ancestor of the post type for a secondary tag outside its
\* row, and for notify the group-card shape only under sub_type "group_card".
ClaimedShape(d) ==
  IF d.post_type \notin DOMAIN ShapeTable THEN "Event"
  ELSE LET row == ShapeTable[d.post_type] IN
         IF d.tag2 \notin DOMAIN row.known THEN row.ancestor
         ELSE IF d.post_type = "notice" /\ d.tag2 = "notify" /\ d.sub_type = "group_card"
              THEN "GroupCardNoticeEvent"
              ELSE row.known[d.tag2]

\* A tag of the dict that parse_event reads holds a value outside the table.
HasUnknownTag(d) ==
  \/ d.post_type = UnknownTag
  \/ d.post_type \in DOMAIN ShapeTable /\ d.tag2 \notin DOMAIN ShapeTable[d.post_type].known
       /\ d.tag2 # NoTag
  \/ d.post_type = "notice" /\ d.tag2 = "notify" /\ d.sub_type \notin {"group_card", NoTag}

\* C20: parse_event builds the shape its dispatch table gives, by post_type,
\* then the secondary tag, then (for notify) sub_type = "group_card"; a tag
\* value outside the table gives the nearest ancestor shape, and the call
\* fails only when the dict lacks a field that shape requires, never because
\* of the unknown tag.
C20_ParseSelectsShape ==
  presult # "none" =>
    /\ presult \in {ClaimedShape(pdata), "ValidationError"}
    /\ presult = "ValidationError" =>
         ~(Required[ClaimedShape(pdata)] \subseteq Present(pdata))

\* C20 witness: a notify notice with a sub_type other than "group_card" and no
\* field lacking was built as NotifyNoticeEvent.
C20_Witness ==
  /\ presult # "none"
  /\ pdata.post_type = "notice"
  /\ pdata.tag2 = "notify"
  /\ pdata.sub_type = "poke"
  /\ pdata.missing = "none"
  /\ HasUnknownTag(pdata)
  /\ presult = "NotifyNoticeEvent"

\* ----------------------------------------------------- command / on_command
\* Texts are sequences of characters over a small alphabet: the slash, the
\* space (the only whitespace) and two letters.
TextChars == {"/", " ", "h", "x"}
Texts == UNION { [1..n -> TextChars] : n \in 0..MaxText }

\* The names a command Matcher is given: one name (a str) or several (a tuple).
CommandNames == { {<<"h">>}, {<<"h">>, <<"h", "x">>} }

\* event.message: a string, or a list of segments with an image before the
\* text segment.
CommandMessages ==
  { [form |-> "str", text |-> t, segs |-> <<>>] : t \in Texts }
    \cup { [form |-> "list", text |-> <<>>,
            segs |-> <<[type |-> "image", text |-> <<>>], [type |-> "text", text |-> t]>>]
           : t \in Texts }

\* The text _command_checker extracts: str(message), or the texts of the text
\* segments of a list joined in order.
RECURSIVE JoinText(_)
JoinText(segs) ==
  IF segs = <<>> THEN <<>>
  ELSE (IF Head(segs).type = "text" THEN Head(segs).text ELSE <<>>) \o JoinText(Tail(segs))

ExtractText(msg) == IF msg.form = "list" THEN JoinText(msg.segs) ELSE msg.text

\* StripSlash dropping every leading slash (lstrip) instead of one.
RECURSIVE StripEverySlash(_)
StripEverySlash(t) ==
  IF t # <<>> /\ Head(t) = "/" THEN StripEverySlash(Tail(t)) ELSE t

\* if text.startswith('/'): text = text[1:]
StripSlash(t) == IF t # <<>> /\ Head(t) = "/" THEN Tail(t) ELSE t

\* str.split(): the maximal runs of non-whitespace characters, in order.
RECURSIVE Split(_, _)
Split(t, word) ==
  IF t = <<>> THEN (IF word = <<>> THEN <<>> ELSE <<word>>)
  ELSE IF Head(t) = " "
       THEN (IF word = <<>> THEN <<>> ELSE <<word>>) \o Split(Tail(t), <<>>)
       ELSE Split(Tail(t), Append(word, Head(t)))

\* _command_checker on a message event: text.split()[0] raises IndexError
\* when there is no token.
CommandChecker(msg, names) ==
  LET tokens == Split(StripSlash(ExtractText(msg)), <<>>) IN
    IF tokens = <<>> THEN "IndexError"
    ELSE IF tokens[1] \in names THEN "match"
    ELSE "nomatch"

\* handle_event, first turn of its loop: the Matcher on_command registered
\* (type "message", block True, a handler that returns) is checked against the
\* message event and, on a match, run.
CmdFirst ==
  /\ cmdStage = "idle"
  /\ cmdCheck' = CommandChecker(cmdText, cmdNames)
  /\ cmdRan' = IF cmdCheck' = "match" THEN <<1>> ELSE <<>>
  /\ cmdStage' = CASE cmdCheck' = "match" -> "returned"
                   [] cmdCheck' = "IndexError" /\ ~HandleEventCatches("Exception") -> "raised"
                   [] OTHER -> "second"
  /\ UNCHANGED <<cmdText, cmdNames>>
  /\ UNCHANGED nonCmdVars

\* handle_event, second turn: the Matcher registered after it with on("") and
\* a handler that returns.
CmdSecond ==
  /\ cmdStage = "second"
  /\ cmdRan' = Append(cmdRan, 2)
  /\ cmdStage' = "returned"
  /\ UNCHANGED <<cmdText, cmdNames, cmdCheck>>
  /\ UNCHANGED nonCmdVars

CommandInit ==
  /\ ConnAbsent
  /\ LoopAbsent
  /\ RaceAbsent
  /\ FanAbsent
  /\ FrameAbsent
  /\ BufAbsent
  /\ RetryAbsent
  /\ RateAbsent
  /\ LogAbsent
  /\ CfgAbsent
  /\ MsgAbsent
  /\ AdapterAbsent
  /\ MatcherAbsent
  /\ ClientAbsent
  /\ SendAbsent
  /\ ParseAbsent
  /\ cmdText \in CommandMessages
  /\ cmdNames \in CommandNames
  /\ cmdStage = "idle"
  /\ cmdCheck = "none"
  /\ cmdRan = <<>>

CommandNext ==
  \/ CmdFirst
  \/ CmdSecond

CommandSpec == CommandInit /\ [][CommandNext]_vars

\* The text of the message with one leading slash removed.
Unslashed(t) == IF Len(t) > 0 /\ t[1] = "/" THEN SubSeq(t, 2, Len(t)) ELSE t

\* The text seen by the rule: the string, or the text segment of the list.
SeenText(msg) == IF msg.form = "str" THEN msg.text ELSE msg.segs[2].text

\* The first whitespace-delimited token of u is one of the names.
FirstTokenIn(u, names) ==
  \E i \in 1..Len(u) : \E j \in i..Len(u) :
    /\ \A k \in 1..(i - 1) : u[k] = " "
    /\ \A k \in i..j : u[k] # " "
    /\ j = Len(u) \/ u[j + 1] = " "
    /\ SubSeq(u, i, j) \in names

\* u has no token: it is empty or holds whitespace only.
NoToken(u) == \A k \in 1..Len(u) : u[k] = " "

InSeq(x, q) == \E k \in 1..Len(q) : q[k] = x

\* C21: the command Matcher runs on a message event iff the first
\* whitespace-delimited token of its text, one leading "/" removed, is one of
\* the names; on a text without a token it does not run and the Matcher after
\* it still does.
C21_CommandFirstToken ==
  cmdStage \in {"returned", "raised"} =>
    LET u == Unslashed(SeenText(cmdText)) IN
      /\ InSeq(1, cmdRan) <=> FirstTokenIn(u, cmdNames)
      /\ NoToken(u) => (~InSeq(1, cmdRan) /\ InSeq(2, cmdRan) /\ cmdStage = "returned")

\* C21 witness: on the text "/" (no token once the slash is removed) the
\* command rule ended in IndexError and the second Matcher ran.
C21_Witness ==
  /\ cmdStage = "returned"
  /\ cmdText.form = "str"
  /\ cmdText.text = <<"/">>
  /\ cmdCheck = "IndexError"
  /\ cmdRan = <<2>>

\* ------------------------------------------------------------------ Message
\* A message string is a sequence of symbols: CqOpen stands for the four
\* characters "[CQ:", the others for themselves, "a" for any other character.
CqOpen == "[CQ:"
CqChars == {CqOpen, "]", ",", "=", "a"}
CqTexts == UNION { [1..n -> CqChars] : n \in 0..MaxCq }

TextType == <<"text">>
TextKey == <<"text">>

\* MessageSegment.text(text)
TextSegment(t) == [cls |-> "MessageSegment", type |-> TextType,
                   data |-> {[k |-> TextKey, v |-> t]}]

\* The end of the longest run of symbols outside `stop` that starts at i
\* (i - 1 when the run is empty).
RECURSIVE RunEnd(_, _, _)
RunEnd(t, i, stop) ==
  IF i > Len(t) \/ t[i] \in stop THEN i - 1 ELSE RunEnd(t, i + 1, stop)

\* ((?:,[^,=]+=[^,\]]*)*)\] tried at p: the index of the closing bracket, or 0.
RECURSIVE ParamsEnd(_, _)
ParamsEnd(t, p) ==
  IF p > Len(t) THEN 0
  ELSE IF t[p] = "]" THEN p
  ELSE IF t[p] = ","
       THEN LET ke == RunEnd(t, p + 1, {",", "="})
                ve == RunEnd(t, ke + 2, {",", "]"})
            IN  IF ke >= p + 1 /\ ke + 1 <= Len(t) /\ t[ke + 1] = "="
                THEN ParamsEnd(t, ve + 1)
                ELSE 0
  ELSE 0

\* cq_pattern tried at i: the index of the last symbol of the match, or 0.
MatchEnd(t, i) ==
  IF t[i] # CqOpen THEN 0
  ELSE LET te == RunEnd(t, i + 1, {",", "]"})
       IN  IF te >= i + 1 THEN ParamsEnd(t, te + 1) ELSE 0

\* params_str[1:].split(','): the pieces between the commas of s[a..b].
RECURSIVE SplitComma(_, _, _)
SplitComma(t, a, b) ==
  IF a > b + 1 THEN <<>>
  ELSE LET e == RunEnd(SubSeq(t, 1, b), a, {","})
       IN  <<SubSeq(t, a, e)>> \o (IF e >= b THEN <<>> ELSE SplitComma(t, e + 2, b))

\* The dict built from the pairs: `if '=' in pair`, split('=', 1), and a
\* later pair with the same key replaces the earlier one.
PairKey(pr) == SubSeq(pr, 1, RunEnd(pr, 1, {"="}))
PairValue(pr) == SubSeq(pr, RunEnd(pr, 1, {"="}) + 2, Len(pr))
HasEquals(pr) == \E k \in 1..Len(pr) : pr[k] = "="
DataOfPairs(prs) ==
  { [k |-> PairKey(prs[n]), v |-> PairValue(prs[n])] :
      n \in { m \in 1..Len(prs) :
                /\ HasEquals(prs[m])
                /\ \A l \in (m + 1)..Len(prs) :
                     HasEquals(prs[l]) => PairKey(prs[l]) # PairKey(prs[m]) } }

\* MessageSegment(type=cq_type, data=data) for the match t[i..j].
CqSegment(t, i, j) ==
  LET te == RunEnd(t, i + 1, {",", "]"})
  IN  [cls |-> "MessageSegment", type |-> SubSeq(t, i + 1, te),
       data |-> IF te + 1 = j THEN {} ELSE DataOfPairs(SplitComma(t, te + 2, j - 1))]

\* The loop over cq_pattern.finditer(message), scanning from i with the last
\* match ended at last_end - 1, followed by the trailing text.
RECURSIVE ScanCq(_, _, _)
ScanCq(t, i, lastEnd) ==
  IF i > Len(t)
  THEN IF lastEnd <= Len(t) THEN <<TextSegment(SubSeq(t, lastEnd, Len(t)))>> ELSE <<>>
  ELSE LET j == MatchEnd(t, i)
       IN  IF j = 0 THEN ScanCq(t, i + 1, lastEnd)
           ELSE (IF i > lastEnd THEN <<TextSegment(SubSeq(t, lastEnd, i - 1))>> ELSE <<>>)
                  \o <<CqSegment(t, i, j)>> \o ScanCq(t, j + 1, j + 1)

\* ParseCqCode without the final `if not segments`.
ParseCqCodeNoFallback(t) == ScanCq(t, 1, 1)

\* _parse_cq_code(message)
ParseCqCode(t) ==
  LET segments == ScanCq(t, 1, 1)
  IN  IF segments = <<>> THEN <<TextSegment(t)>> ELSE segments

\* The items a list argument can hold: segments, their dict form, and an item
\* that is neither.
SampleSegments ==
  { TextSegment(<<"a">>),
    [cls |-> "MessageSegment", type |-> <<"a">>, data |-> {[k |-> <<"a">>, v |-> <<"a">>]}] }
AsDict(seg) == [cls |-> "dict", type |-> seg.type, data |-> seg.data]
OtherItem == [cls |-> "int", type |-> <<>>, data |-> {}]
ListItems == SampleSegments \cup { AsDict(s) : s \in SampleSegments } \cup {OtherItem}

MessageArgs2 ==
  { [kind |-> "str", text |-> t, items |-> <<>>] : t \in CqTexts }
    \cup { [kind |-> "list", text |-> <<>>, items |-> l] :
             l \in UNION { [1..n -> ListItems] : n \in 0..MaxSegs } }

\* MessageSegment.model_validate(seg) of a dict or of a segment.
SegmentValidate(x) == [cls |-> "MessageSegment", type |-> x.type, data |-> x.data]

\* What stands for a constructor that raised ValueError.
ValueErrorResult == <<[cls |-> "ValueError", type |-> <<>>, data |-> {}]>>

\* Message.__init__ given a list: decided on the first item, every item then
\* validated as a segment (by model_validate or by the root model, whose
\* ValidationError is a ValueError); the empty list gives no segments.
InitFromList(items) ==
  IF items # <<>>
  THEN IF \A n \in 1..Len(items) : items[n].cls \in {"MessageSegment", "dict"}
       THEN [n \in 1..Len(items) |-> SegmentValidate(items[n])]
       ELSE ValueErrorResult
  ELSE <<>>

\* Message.__init__
NewMessage(arg) ==
  IF arg.kind = "str" THEN ParseCqCode(arg.text) ELSE InitFromList(arg.items)

\* to_dict(): seg.model_dump() of every segment.
ToDict(segs) == [n \in 1..Len(segs) |-> AsDict(segs[n])]

\* FromDict refusing an empty list.
FromDictRejectsEmpty(data) ==
  IF data = <<>> THEN ValueErrorResult
  ELSE InitFromList([n \in 1..Len(data) |-> SegmentValidate(data[n])])

\* from_dict(data): model_validate of every dict, then the constructor.
FromDict(data) == InitFromList([n \in 1..Len(data) |-> SegmentValidate(data[n])])

MsgConstruct ==
  /\ mStage = "idle"
  /\ mSegs' = NewMessage(mArg)
  /\ mStage' = "built"
  /\ UNCHANGED <<mArg, mBack>>
  /\ UNCHANGED nonMsgVars

MsgRoundTrip ==
  /\ mStage = "built"
  /\ mSegs # ValueErrorResult
  /\ mBack' = FromDict(ToDict(mSegs))
  /\ mStage' = "round"
  /\ UNCHANGED <<mArg, mSegs>>
  /\ UNCHANGED nonMsgVars

MessageInit ==
  /\ ConnAbsent
  /\ LoopAbsent
  /\ RaceAbsent
  /\ FanAbsent
  /\ FrameAbsent
  /\ BufAbsent
  /\ RetryAbsent
  /\ RateAbsent
  /\ LogAbsent
  /\ CfgAbsent
  /\ AdapterAbsent
  /\ MatcherAbsent
  /\ ClientAbsent
  /\ SendAbsent
  /\ ParseAbsent
  /\ CmdAbsent
  /\ mArg \in MessageArgs2
  /\ mStage = "idle"
  /\ mSegs = <<>>
  /\ mBack = <<>>

MessageNext ==
  \/ MsgConstruct
  \/ MsgRoundTrip

MessageSpec == MessageInit /\ [][MessageNext]_vars

\* ---- claims about Message
\* t[a..b] is a (possibly empty) list of ",key=value" parameters.
RECURSIVE IsParamList(_, _, _)
IsParamList(t, a, b) ==
  \/ a = b + 1
  \/ /\ a <= b
     /\ t[a] = ","
     /\ \E q \in (a + 2)..b :
          /\ t[q] = "="
          /\ \A k \in (a + 1)..(q - 1) : t[k] \notin {",", "="}
          /\ \E r \in q..b :
               /\ \A k \in (q + 1)..r : t[k] \notin {",", "]"}
               /\ IsParamList(t, r + 1, b)

\* t[i..j] reads [CQ:type,key=value,...].
IsCqMatch(t, i, j) ==
  /\ t[i] = CqOpen
  /\ t[j] = "]"
  /\ \E e \in (i + 1)..(j - 1) :
       /\ \A k \in (i + 1)..e : t[k] \notin {",", "]"}
       /\ IsParamList(t, e + 1, j - 1)

MatchStarts(t, from) == { i \in from..Len(t) : \E j \in i..Len(t) : IsCqMatch(t, i, j) }
Least(S) == CHOOSE x \in S : \A y \in S : x <= y
Greatest(S) == CHOOSE x \in S : \A y \in S : x >= y

\* The pieces of t from `from` on, in source order: each match as its span,
\* each non-empty run of text outside the matches as its span.
RECURSIVE Pieces(_, _)
Pieces(t, from) ==
  IF MatchStarts(t, from) = {}
  THEN IF from <= Len(t) THEN <<[cq |-> FALSE, a |-> from, b |-> Len(t)]>> ELSE <<>>
  ELSE LET i == Least(MatchStarts(t, from))
           j == Greatest({ e \in i..Len(t) : IsCqMatch(t, i, e) })
       IN  (IF i > from THEN <<[cq |-> FALSE, a |-> from, b |-> i - 1]>> ELSE <<>>)
             \o <<[cq |-> TRUE, a |-> i, b |-> j]>> \o Pieces(t, j + 1)

\* Segment s is the segment of piece p of t: the text segment holding the run,
\* or a segment of the type the match names whose data holds only key=value
\* parameters of the match, and some when the match has parameters.
SegmentOfPiece(s, t, p) ==
  IF ~p.cq THEN s = TextSegment(SubSeq(t, p.a, p.b))
  ELSE LET e == Least({ k \in p.a..p.b : t[k] \in {",", "]"} }) IN
         /\ s.type = SubSeq(t, p.a + 1, e - 1)
         /\ (s.data = {}) <=> (e = p.b)
         /\ \A d \in s.data :
              \E x \in e..(p.b - 1) : \E y \in (x + 1)..(p.b - 1) :
                /\ t[x] = ","
                /\ t[y + 1] \in {",", "]"}
                /\ SubSeq(t, x + 1, y) = d.k \o <<"=">> \o d.v

\* C22: a Message built from a string has, in source order, one segment per
\* [CQ:...] match and one text segment per non-empty run of text outside the
\* matches; a string without a match, the empty string included, gives
\* exactly one text segment holding the whole string.
C22_SegmentsOfString ==
  (mStage # "idle" /\ mArg.kind = "str") =>
    LET t == mArg.text
        ps == Pieces(t, 1)
    IN  IF MatchStarts(t, 1) = {}
        THEN mSegs = <<TextSegment(t)>>
        ELSE /\ Len(mSegs) = Len(ps)
             /\ \A n \in 1..Len(ps) : SegmentOfPiece(mSegs[n], t, ps[n])

\* C22 witness: the string "[CQ:a,a=a]" was built into one segment of type a
\* whose data holds a = a.
C22_Witness ==
  /\ mStage = "built"
  /\ mArg.kind = "str"
  /\ mArg.text = <<CqOpen, "a", ",", "a", "=", "a", "]">>
  /\ Len(mSegs) = 1
  /\ mSegs[1].type = <<"a">>
  /\ mSegs[1].data = {[k |-> <<"a">>, v |-> <<"a">>]}

ConfigKinds == {"http", "websocket", "reverse_ws"}
QueryKinds == ConfigKinds \cup {"missing"}

\* The connection lists a Config accepts: at least one entry.
ConfigLists ==
  UNION { { [i \in 1..n |-> [type |-> f[i], n |-> i]] : f \in [1..n -> ConfigKinds] }
          : n \in 1..MaxConns }

\* GetConnectionByType keeping the last match instead of returning the first.
GetConnectionByTypeLast(conns, kind) ==
  LET hits == SelectSeq(conns, LAMBDA c : c.type = kind)
  IN  IF hits = <<>> THEN <<>> ELSE <<hits[Len(hits)]>>

\* get_connection_by_type: the loop returns at the first entry of the type,
\* None (the empty list here) after the last.
RECURSIVE GetConnectionByType(_, _)
GetConnectionByType(conns, kind) ==
  IF conns = <<>> THEN <<>>
  ELSE IF Head(conns).type = kind THEN <<Head(conns)>>
  ELSE GetConnectionByType(Tail(conns), kind)

\* get_connections_by_types: [conn for conn in self.connections if conn.type in types]
GetConnectionsByTypes(conns, kinds) == SelectSeq(conns, LAMBDA c : c.type \in kinds)

CfgGetOne(kind) ==
  /\ cfgQuery' = [op |-> "one", kinds |-> {kind}]
  /\ cfgResult' = GetConnectionByType(cfgConns, kind)
  /\ UNCHANGED cfgConns
  /\ UNCHANGED nonCfgVars

CfgGetMany(kinds) ==
  /\ cfgQuery' = [op |-> "many", kinds |-> kinds]
  /\ cfgResult' = GetConnectionsByTypes(cfgConns, kinds)
  /\ UNCHANGED cfgConns
  /\ UNCHANGED nonCfgVars

ConfigInit ==
  /\ ConnAbsent
  /\ LoopAbsent
  /\ RaceAbsent
  /\ FanAbsent
  /\ FrameAbsent
  /\ BufAbsent
  /\ RetryAbsent
  /\ RateAbsent
  /\ LogAbsent
  /\ AdapterAbsent
  /\ MatcherAbsent
  /\ ClientAbsent
  /\ SendAbsent
  /\ ParseAbsent
  /\ CmdAbsent
  /\ MsgAbsent
  /\ cfgConns \in ConfigLists
  /\ cfgQuery = NoQuery
  /\ cfgResult = <<>>

ConfigNext ==
  \/ \E kind \in QueryKinds : CfgGetOne(kind)
  \/ \E kinds \in SUBSET QueryKinds : CfgGetMany(kinds)

ConfigSpec == ConfigInit /\ [][ConfigNext]_vars

\* The positions of the entries whose type is among the kinds.
PositionsOf(kinds) == { i \in 1..Len(cfgConns) : cfgConns[i].type \in kinds }

\* C24: get_connection_by_type returns the entry of that type at the least
\* position, or nothing when there is none; get_connections_by_types returns
\* exactly the entries whose type is among the given ones, in configuration
\* order.
C24_LookupByType ==
  /\ cfgQuery.op = "one" =>
       IF PositionsOf(cfgQuery.kinds) = {} THEN cfgResult = <<>>
       ELSE /\ Len(cfgResult) = 1
            /\ cfgResult[1] = cfgConns[cfgResult[1].n]
            /\ cfgResult[1].n \in PositionsOf(cfgQuery.kinds)
            /\ \A i \in PositionsOf(cfgQuery.kinds) : cfgResult[1].n <= i
  /\ cfgQuery.op = "many" =>
       /\ { cfgResult[k].n : k \in 1..Len(cfgResult) } = PositionsOf(cfgQuery.kinds)
       /\ \A k \in 1..Len(cfgResult) : cfgResult[k] = cfgConns[cfgResult[k].n]
       /\ \A k, l \in 1..Len(cfgResult) : k < l => cfgResult[k].n < cfgResult[l].n

\* C24 witness: with two websocket entries around an http entry, the lookup of
\* "websocket" returned the first of them.
C24_Witness ==
  /\ Len(cfgConns) = 3
  /\ cfgConns[1].type = "websocket"
  /\ cfgConns[2].type = "http"
  /\ cfgConns[3].type = "websocket"
  /\ cfgQuery = [op |-> "one", kinds |-> {"websocket"}]
  /\ cfgResult = <<cfgConns[1]>>

\* ------------------------------------------------------------- YunBotLogger
\* The levels used, with loguru's numbers.
LogLevels == {"DEBUG", "INFO", "ERROR"}
LevelNo(l) == CASE l = "DEBUG" -> 10 [] l = "INFO" -> 20 [] l = "ERROR" -> 40

\* RemoveHandlers removing nothing from loguru.
RemoveHandlersLeavesSinks(sinks, ids) == sinks

\* HandlerManager.remove_handlers: loguru.remove(id) for every recorded id (a
\* ValueError for an id already gone is ignored).
RemoveHandlers(sinks, ids) ==
  { h \in sinks : \A k \in 1..Len(ids) : ids[k] # h.id }

\* add_console_handler / add_file_handler: loguru.add with the name filter.
NewHandler(id, n, sink, level) == [id |-> id, name |-> n, sink |-> sink, level |-> level]

\* setup(level, log_to_file) returning: the old handlers of the name are
\* removed, a console handler is added and, if asked for, a file handler; the
\* configuration is stored.
LgSetup(n, level, file) ==
  /\ lgNextId + 1 <= MaxHandlerIds
  /\ LET kept == RemoveHandlers(lgSinks, lgIds[n])
         console == NewHandler(lgNextId, n, "console", level)
         tofile == NewHandler(lgNextId + 1, n, "file", level)
     IN  /\ lgSinks' = kept \cup {console} \cup (IF file THEN {tofile} ELSE {})
         /\ lgIds' = [lgIds EXCEPT ![n] = IF file THEN <<console.id, tofile.id>>
                                          ELSE <<console.id>>]
         /\ lgNextId' = lgNextId + (IF file THEN 2 ELSE 1)
  /\ lgConfig' = [lgConfig EXCEPT ![n] = [level |-> level, file |-> file]]
  /\ lgLast' = [lgLast EXCEPT ![n] = "ok"]
  /\ lgOut' = NoOut
  /\ UNCHANGED nonLogVars

\* setup with a level that is not registered: InvalidLogLevelError before
\* anything is touched.
LgSetupBadLevel(n) ==
  /\ lgLast' = [lgLast EXCEPT ![n] = "failed"]
  /\ lgOut' = NoOut
  /\ UNCHANGED <<lgSinks, lgIds, lgNextId, lgConfig>>
  /\ UNCHANGED nonLogVars

\* setup(level, log_to_file=True) whose log directory cannot be created:
\* LoggerConfigError after the old handlers were removed and the console
\* handler added; the stored configuration is the old one.
LgSetupDirFails(n, level) ==
  /\ lgNextId + 1 <= MaxHandlerIds
  /\ lgSinks' = RemoveHandlers(lgSinks, lgIds[n])
                  \cup {NewHandler(lgNextId, n, "console", level)}
  /\ lgIds' = [lgIds EXCEPT ![n] = <<lgNextId>>]
  /\ lgNextId' = lgNextId + 1
  /\ lgLast' = [lgLast EXCEPT ![n] = "failed"]
  /\ lgOut' = NoOut
  /\ UNCHANGED lgConfig
  /\ UNCHANGED nonLogVars

\* The ids of the handlers that emit a record of the name and level, in order.
RECURSIVE Emitters(_, _, _)
Emitters(id, n, level) ==
  IF id >= lgNextId THEN <<>>
  ELSE (IF \E h \in lgSinks : h.id = id /\ h.name = n /\ LevelNo(level) >= LevelNo(h.level)
        THEN <<(CHOOSE h \in lgSinks : h.id = id).sink>>
        ELSE <<>>) \o Emitters(id + 1, n, level)

\* debug() / info() / error() of a configured logger: the record, bound to the
\* name, goes to every handler whose filter and level let it through.
LgLog(n, level) ==
  /\ lgConfig[n] # NoConfig
  /\ lgOut' = [name |-> n, level |-> level, sinks |-> Emitters(1, n, level)]
  /\ UNCHANGED <<lgSinks, lgIds, lgNextId, lgConfig, lgLast>>
  /\ UNCHANGED nonLogVars

\* The module as imported: loguru's default handler removed, the default
\* logger "YunBot" set up at INFO without a file.
LoggerInit ==
  /\ ConnAbsent
  /\ LoopAbsent
  /\ RaceAbsent
  /\ FanAbsent
  /\ FrameAbsent
  /\ BufAbsent
  /\ RetryAbsent
  /\ RateAbsent
  /\ AdapterAbsent
  /\ MatcherAbsent
  /\ ClientAbsent
  /\ SendAbsent
  /\ ParseAbsent
  /\ CmdAbsent
  /\ MsgAbsent
  /\ CfgAbsent
  /\ lgSinks = {NewHandler(1, "YunBot", "console", "INFO")}
  /\ lgIds = [n \in LoggerNames |-> IF n = "YunBot" THEN <<1>> ELSE <<>>]
  /\ lgNextId = 2
  /\ lgConfig = [n \in LoggerNames |->
                   IF n = "YunBot" THEN [level |-> "INFO", file |-> FALSE] ELSE NoConfig]
  /\ lgLast = [n \in LoggerNames |-> IF n = "YunBot" THEN "ok" ELSE "none"]
  /\ lgOut = NoOut

LoggerNext ==
  \/ \E n \in LoggerNames, level \in LogLevels, file \in BOOLEAN : LgSetup(n, level, file)
  \/ \E n \in LoggerNames : LgSetupBadLevel(n)
  \/ \E n \in LoggerNames, level \in LogLevels : LgSetupDirFails(n, level)
  \/ \E n \in LoggerNames, level \in LogLevels : LgLog(n, level)

LoggerSpec == LoggerInit /\ [][LoggerNext]_vars

\* The handlers loguru holds for a name.
HandlersOf(n) == { h \in lgSinks : h.name = n }

\* C25: when the last setup of a name succeeded, the handlers of the name are
\* one console handler at the configured level and, iff log_to_file was asked
\* for, one file handler at that level, nothing else; a record logged since
\* is emitted once per such handler, and only at or above that level.
C25_LatestSetupOnly ==
  \A n \in LoggerNames :
    lgLast[n] = "ok" =>
      /\ { [sink |-> h.sink, level |-> h.level] : h \in HandlersOf(n) }
           = {[sink |-> "console", level |-> lgConfig[n].level]}
               \cup (IF lgConfig[n].file
                     THEN {[sink |-> "file", level |-> lgConfig[n].level]} ELSE {})
      /\ Cardinality(HandlersOf(n)) = IF lgConfig[n].file THEN 2 ELSE 1
      /\ lgOut.name = n =>
           lgOut.sinks = IF LevelNo(lgOut.level) < LevelNo(lgConfig[n].level) THEN <<>>
                         ELSE IF lgConfig[n].file THEN <<"console", "file">>
                         ELSE <<"console">>

\* C25 witness: the default logger, set up at INFO on import, then with a
\* file sink and then again at DEBUG without one, emitted a debug record once,
\* on the console.
C25_Witness ==
  /\ lgLast["YunBot"] = "ok"
  /\ lgConfig["YunBot"] = [level |-> "DEBUG", file |-> FALSE]
  /\ lgIds["YunBot"] = <<4>>
  /\ lgOut = [name |-> "YunBot", level |-> "DEBUG", sinks |-> <<"console">>]

\* --------------------------------------------------------------- rate_limit
\* calls[:] = [call for call in calls if at - call < time_window]
Unexpired(calls, at, window) == SelectSeq(calls, LAMBDA c : at - c < window)

\* sleep_time = time_window - (now - calls[0])
SleepTime(calls, at, window) == window - (at - calls[1])

\* if len(calls) >= max_calls: ... if sleep_time > 0:
MustSleep(calls, at, max, window) ==
  IF Len(calls) >= max THEN SleepTime(calls, at, window) > 0 ELSE FALSE

\* A call enters the wrapper and takes the lock (a call that finds the lock
\* held waits and enters when it is released).  With room in the window it
\* records `now` and goes on to the function at once.
RlEnterAdmit ==
  /\ rlHolder = "none"
  /\ Len(rlAdmitted) < MaxArrivals
  /\ LET calls == Unexpired(rlCalls, rlClock, rlWindow)
     IN  /\ ~MustSleep(calls, rlClock, rlMax, rlWindow)
         /\ rlCalls' = Append(calls, rlClock)
  /\ rlAdmitted' = Append(rlAdmitted, rlClock)
  /\ UNCHANGED <<rlMax, rlWindow, rlClock, rlHolder, rlNow, rlWake>>
  /\ UNCHANGED nonRateVars

\* A call enters with the window full: it sleeps, holding the lock, until the
\* oldest recorded call is a window old.
RlEnterSleep ==
  /\ rlHolder = "none"
  /\ Len(rlAdmitted) < MaxArrivals
  /\ LET calls == Unexpired(rlCalls, rlClock, rlWindow)
     IN  /\ MustSleep(calls, rlClock, rlMax, rlWindow)
         /\ rlCalls' = calls
         /\ rlWake' = rlClock + SleepTime(calls, rlClock, rlWindow)
  /\ rlHolder' = "sleeping"
  /\ rlNow' = rlClock
  /\ UNCHANGED <<rlMax, rlWindow, rlClock, rlAdmitted>>
  /\ UNCHANGED nonRateVars

\* The sleep returns (at its due time or later): the records are cleaned
\* against the current time, `now` (taken before the sleep) is recorded, the
\* lock is released and the function is called.
RlWakeAdmit ==
  /\ rlHolder = "sleeping"
  /\ rlClock >= rlWake
  /\ rlCalls' = Append(Unexpired(rlCalls, rlClock, rlWindow), rlNow)
  /\ rlAdmitted' = Append(rlAdmitted, rlClock)
  /\ rlHolder' = "none"
  /\ UNCHANGED <<rlMax, rlWindow, rlClock, rlNow, rlWake>>
  /\ UNCHANGED nonRateVars

\* Time passes.
RlTick ==
  /\ rlClock < MaxClock
  /\ rlClock' = rlClock + 1
  /\ UNCHANGED <<rlMax, rlWindow, rlCalls, rlHolder, rlNow, rlWake, rlAdmitted>>
  /\ UNCHANGED nonRateVars

RateInit ==
  /\ ConnAbsent
  /\ LoopAbsent
  /\ RaceAbsent
  /\ FanAbsent
  /\ FrameAbsent
  /\ BufAbsent
  /\ RetryAbsent
  /\ AdapterAbsent
  /\ MatcherAbsent
  /\ ClientAbsent
  /\ SendAbsent
  /\ ParseAbsent
  /\ CmdAbsent
  /\ MsgAbsent
  /\ CfgAbsent
  /\ LogAbsent
  /\ rlMax \in 1..MaxRate
  /\ rlWindow \in 2..MaxWindow
  /\ rlClock = 0
  /\ rlCalls = <<>>
  /\ rlHolder = "none"
  /\ rlNow = 0
  /\ rlWake = 0
  /\ rlAdmitted = <<>>

RateNext ==
  \/ RlEnterAdmit
  \/ RlEnterSleep
  \/ RlWakeAdmit
  \/ RlTick

RateSpec == RateInit /\ [][RateNext]_vars

\* The calls admitted in the interval [t, t + time_window).
AdmittedIn(t) ==
  { k \in 1..Len(rlAdmitted) : t <= rlAdmitted[k] /\ rlAdmitted[k] < t + rlWindow }

\* C26: in every interval of length time_window at most max_calls calls are
\* admitted.
C26_AtMostMaxCallsPerWindow ==
  \A t \in 0..MaxClock : Cardinality(AdmittedIn(t)) <= rlMax

\* -------------------------------------------------------------------- retry
\* How one invocation of the wrapped function ends: it returns, raises one of
\* `exceptions`, or raises something else.
CallOutcomes == {"ok", "retried", "other"}

NoResult == [kind |-> "none", at |-> 0]

KeepFirstException(prev, e) == IF prev = 0 THEN e ELSE prev

\* last_exception = e
LastException(prev, e) == e

\* return await func(*args, **kwargs)
RtReturn ==
  /\ rtPc = "call"
  /\ Len(rtLog) < rtMax
  /\ rtLog' = Append(rtLog, "ok")
  /\ rtResult' = [kind |-> "return", at |-> Len(rtLog) + 1]
  /\ rtPc' = "done"
  /\ UNCHANGED <<rtMax, rtDelay, rtBackoff, rtCur, rtSleeps, rtLast>>
  /\ UNCHANGED nonRetryVars

\* The function raises outside `exceptions`: no handler, the wrapper raises it.
RtRaiseOther ==
  /\ rtPc = "call"
  /\ Len(rtLog) < rtMax
  /\ rtLog' = Append(rtLog, "other")
  /\ rtResult' = [kind |-> "raise", at |-> Len(rtLog) + 1]
  /\ rtPc' = "done"
  /\ UNCHANGED <<rtMax, rtDelay, rtBackoff, rtCur, rtSleeps, rtLast>>
  /\ UNCHANGED nonRetryVars

\* The function raises one of `exceptions` before the last attempt: the
\* wrapper records it and sleeps current_delay.
RtFailSleep ==
  /\ rtPc = "call"
  /\ Len(rtLog) < rtMax - 1
  /\ rtLog' = Append(rtLog, "retried")
  /\ rtLast' = LastException(rtLast, Len(rtLog) + 1)
  /\ rtSleeps' = Append(rtSleeps, rtCur)
  /\ rtPc' = "sleeping"
  /\ UNCHANGED <<rtMax, rtDelay, rtBackoff, rtCur, rtResult>>
  /\ UNCHANGED nonRetryVars

\* asyncio.sleep returns: current_delay *= backoff, next attempt.
RtSleepDone ==
  /\ rtPc = "sleeping"
  /\ rtCur' = rtCur * rtBackoff
  /\ rtPc' = "call"
  /\ UNCHANGED <<rtMax, rtDelay, rtBackoff, rtLog, rtSleeps, rtLast, rtResult>>
  /\ UNCHANGED nonRetryVars

\* The function raises one of `exceptions` on the last attempt: the loop ends
\* and last_exception is raised.
RtFailLast ==
  /\ rtPc = "call"
  /\ rtMax >= 1
  /\ Len(rtLog) = rtMax - 1
  /\ rtLog' = Append(rtLog, "retried")
  /\ rtLast' = LastException(rtLast, Len(rtLog) + 1)
  /\ rtResult' = [kind |-> "raise", at |-> rtLast']
  /\ rtPc' = "done"
  /\ UNCHANGED <<rtMax, rtDelay, rtBackoff, rtCur, rtSleeps>>
  /\ UNCHANGED nonRetryVars

\* max_attempts = 0: the loop body never runs, RuntimeError.
RtNoAttempt ==
  /\ rtPc = "call"
  /\ rtMax = 0
  /\ rtResult' = [kind |-> "RuntimeError", at |-> 0]
  /\ rtPc' = "done"
  /\ UNCHANGED <<rtMax, rtDelay, rtBackoff, rtLog, rtCur, rtSleeps, rtLast>>
  /\ UNCHANGED nonRetryVars

RetryInit ==
  /\ ConnAbsent
  /\ LoopAbsent
  /\ RaceAbsent
  /\ FanAbsent
  /\ FrameAbsent
  /\ BufAbsent
  /\ AdapterAbsent
  /\ MatcherAbsent
  /\ ClientAbsent
  /\ SendAbsent
  /\ ParseAbsent
  /\ CmdAbsent
  /\ MsgAbsent
  /\ CfgAbsent
  /\ LogAbsent
  /\ RateAbsent
  /\ rtMax \in 0..MaxAttempts
  /\ rtDelay \in 1..MaxDelay
  /\ rtBackoff \in 1..MaxBackoff
  /\ rtPc = "call"
  /\ rtLog = <<>>
  /\ rtCur = rtDelay
  /\ rtSleeps = <<>>
  /\ rtLast = 0
  /\ rtResult = NoResult

RetryNext ==
  \/ RtReturn
  \/ RtRaiseOther
  \/ RtFailSleep
  \/ RtSleepDone
  \/ RtFailLast
  \/ RtNoAttempt

RetrySpec == RetryInit /\ [][RetryNext]_vars

RECURSIVE Pow(_, _)
Pow(b, n) == IF n = 0 THEN 1 ELSE b * Pow(b, n - 1)

\* C27: with max_attempts = k >= 1 the function is invoked at most k times; a
\* success is the last invocation and its result is returned; the i-th sleep
\* lasts delay * backoff^(i-1), one sleep follows each failed attempt but the
\* last and none follows the wrapper's last invocation; after k retried
\* failures the k-th failure is raised; a failure of another kind is the last
\* invocation and is raised at once.
C27_RetryContract ==
  rtMax >= 1 =>
    /\ Len(rtLog) <= rtMax
    /\ \A i \in 1..Len(rtLog) :
         rtLog[i] # "retried" =>
           /\ i = Len(rtLog)
           /\ rtPc = "done"
           /\ rtResult = [kind |-> IF rtLog[i] = "ok" THEN "return" ELSE "raise", at |-> i]
    /\ \A i \in 1..Len(rtSleeps) : rtSleeps[i] = rtDelay * Pow(rtBackoff, i - 1)
    /\ Len(rtSleeps) = IF rtPc = "done" THEN Len(rtLog) - 1 ELSE Len(rtLog)
    /\ Len(rtSleeps) <= rtMax - 1
    /\ (rtPc = "done" /\ \A i \in 1..Len(rtLog) : rtLog[i] = "retried") =>
         /\ Len(rtLog) = rtMax
         /\ rtResult = [kind |-> "raise", at |-> rtMax]
    /\ rtPc # "done" => rtResult = NoResult

\* Three attempts with growing delay all failed: the third failure is raised
\* after two sleeps.
C27_Witness ==
  /\ rtMax = 3
  /\ rtDelay = 1
  /\ rtBackoff = 2
  /\ rtLog = <<"retried", "retried", "retried">>
  /\ rtSleeps = <<1, 2>>
  /\ rtResult = [kind |-> "raise", at |-> 3]

\* ----------------------------------------------------------- CircularBuffer
TailIndexNoWrap(head, count, size) == IF head >= count THEN head - count ELSE 0

\* tail = (self.head - self.count) % self.size
TailIndex(head, count, size) == (head - count) % size

\* The item a put stores: the items are told apart by the order of their puts.
NextItem == 1 + Cardinality({ k \in 1..Len(cbOps) : cbOps[k].op = "put" })

CbPut ==
  /\ Len(cbOps) < MaxOps
  /\ cbBuffer' = [cbBuffer EXCEPT ![cbHead + 1] = NextItem]
  /\ cbHead' = (cbHead + 1) % cbSize
  /\ cbCount' = IF cbCount < cbSize THEN cbCount + 1 ELSE cbCount
  /\ cbOps' = Append(cbOps, [op |-> "put", item |-> NextItem])
  /\ UNCHANGED <<cbSize, cbRet>>
  /\ UNCHANGED nonBufVars

CbGet ==
  /\ Len(cbOps) < MaxOps
  /\ IF cbCount = 0
     THEN /\ cbRet' = NoneItem
          /\ UNCHANGED <<cbBuffer, cbCount>>
     ELSE LET tail == TailIndex(cbHead, cbCount, cbSize) IN
          /\ cbRet' = cbBuffer[tail + 1]
          /\ cbBuffer' = [cbBuffer EXCEPT ![tail + 1] = NoneItem]
          /\ cbCount' = cbCount - 1
  /\ cbOps' = Append(cbOps, [op |-> "get", item |-> NoneItem])
  /\ UNCHANGED <<cbSize, cbHead>>
  /\ UNCHANGED nonBufVars

CbClear ==
  /\ Len(cbOps) < MaxOps
  /\ cbBuffer' = [i \in 1..cbSize |-> NoneItem]
  /\ cbHead' = 0
  /\ cbCount' = 0
  /\ cbOps' = Append(cbOps, [op |-> "clear", item |-> NoneItem])
  /\ UNCHANGED <<cbSize, cbRet>>
  /\ UNCHANGED nonBufVars

\* is_empty() / is_full()
IsEmpty == cbCount = 0
IsFull == cbCount = cbSize

BufferInit ==
  /\ ConnAbsent
  /\ LoopAbsent
  /\ RaceAbsent
  /\ FanAbsent
  /\ FrameAbsent
  /\ AdapterAbsent
  /\ MatcherAbsent
  /\ ClientAbsent
  /\ SendAbsent
  /\ ParseAbsent
  /\ CmdAbsent
  /\ MsgAbsent
  /\ CfgAbsent
  /\ LogAbsent
  /\ RateAbsent
  /\ RetryAbsent
  /\ cbSize \in 1..MaxSize
  /\ cbBuffer = [i \in 1..cbSize |-> NoneItem]
  /\ cbHead = 0
  /\ cbCount = 0
  /\ cbRet = NoneItem
  /\ cbOps = <<>>

BufferNext ==
  \/ CbPut
  \/ CbGet
  \/ CbClear

BufferSpec == BufferInit /\ [][BufferNext]_vars

\* The reference queue after the first k calls: the puts not yet taken,
\* oldest first, the oldest dropped by a put that finds n of them.
RECURSIVE Fifo(_)
Fifo(k) ==
  IF k = 0 THEN <<>>
  ELSE LET q == Fifo(k - 1)
           o == cbOps[k]
       IN CASE o.op = "put" ->
                 IF Len(q) = cbSize THEN Append(Tail(q), o.item) ELSE Append(q, o.item)
            [] o.op = "get" -> IF q = <<>> THEN q ELSE Tail(q)
            [] OTHER -> <<>>

\* The items the buffer holds, read from the tail slot on.
Retained ==
  [i \in 1..cbCount |-> cbBuffer[((TailIndex(cbHead, cbCount, cbSize) + i - 1) % cbSize) + 1]]

\* C28: after any sequence of put / get / clear the buffer holds the items of
\* the reference queue (the most recent puts not yet taken, at most n); a get
\* returned the oldest of them, or the empty sentinel when there was none;
\* 0 <= count <= n; is_empty iff nothing is retained, is_full iff n items are.
C28_BufferIsBoundedFifo ==
  LET q == Fifo(Len(cbOps)) IN
  /\ Retained = q
  /\ cbCount = Len(q)
  /\ 0 <= cbCount /\ cbCount <= cbSize
  /\ IsEmpty <=> q = <<>>
  /\ IsFull <=> Len(q) = cbSize
  /\ (cbOps # <<>> /\ cbOps[Len(cbOps)].op = "get") =>
       LET before == Fifo(Len(cbOps) - 1) IN
       cbRet = IF before = <<>> THEN NoneItem ELSE Head(before)

\* Capacity 2: three puts, the first item was overwritten, a get returned the
\* second and the third is retained.
C28_Witness ==
  /\ cbSize = 2
  /\ Len(cbOps) = 4
  /\ cbOps[4].op = "get"
  /\ cbRet = 2
  /\ Retained = <<3>>

\* ------------------------------------------------ pending requests (C29)
\* The fetch of id i is registered and its future is not done.
Outstanding(i) == pc[i] = "waiting" /\ fut[i].st = "pending"

\* C29: get_pending_requests() holds exactly the ids whose fetch is registered
\* and not yet settled by value, failure, timeout or cancellation.
C29_PendingIsOutstanding ==
  \A i \in Ids : InTable(GetPendingRequests, i) <=> Outstanding(i)

\* ---------------------------------------- _handle_message: responses, events
InboundFrames ==
  { f \in [echo : 0..MaxFetch, status : {"absent", "ok", "dict"}, retcode : BOOLEAN,
           post : {"absent", "meta_event", "message"},
           meta : {"absent", "heartbeat"}, parses : BOOLEAN] :
      /\ f.meta = "heartbeat" => f.post = "meta_event"
      /\ f.post = "absent" => ~f.parses
      /\ f # NoFrame }

\* "status" in message and "retcode" in message
IsApiResponse(f) == f.status # "absent" /\ f.retcode

\* The heartbeat branch reads message.get('status', {}).get('online'): a
\* string status has no get, the AttributeError ends the handler in its outer
\* except clause.
LoggingRaises(f) == f.post = "meta_event" /\ f.meta = "heartbeat" /\ f.status = "ok"

\* The frame as the result store reads it (status is not "failed").
AsResponse(f) == [echo |-> f.echo, status |-> "ok", message |-> NoField, msg |-> NoField]

\* One _handle_message call, whole: the logging branch, the correlation of a
\* response (returning when it correlates), then the event branch.
HmHandleMessage(f) ==
  /\ hmCount < MaxHandled
  /\ hmCount' = hmCount + 1
  /\ LET c == Correlate(futures, fut, AsResponse(f))
         tried == ~LoggingRaises(f) /\ IsApiResponse(f)
         matched == tried /\ (c.byId \/ c.byOrder)
         decoded == ~LoggingRaises(f) /\ ~matched /\ f.post # "absent"
     IN  /\ futures' = IF tried THEN c.futures ELSE futures
         /\ fut' = IF tried THEN c.fut ELSE fut
         /\ hmLast' = [frame |-> f,
                       route |-> IF LoggingRaises(f) THEN "raised"
                                 ELSE IF ~tried THEN "none"
                                 ELSE IF c.byId THEN "byId"
                                 ELSE IF c.byOrder THEN "byOrder"
                                 ELSE "orphan",
                       decoded |-> decoded,
                       dispatched |-> decoded /\ f.parses]
  /\ UNCHANGED <<timedOut, pc, outcome, nreq, last>>
  /\ UNCHANGED connVars
  /\ UNCHANGED nonFrameVars

FrameInit == Init

FrameNext ==
  \/ SFetch
  \/ \E i \in Ids : FetchTimeout(i)
  \/ \E i \in Ids : FetchResume(i)
  \/ \E f \in InboundFrames : HmHandleMessage(f)

FrameSpec == FrameInit /\ [][FrameNext]_vars

AtLoginEntry == apc.op = "start" /\ apc.phase \in {"login", "promote"}
\* (every step of start() moves apc; an event handled meanwhile does not)

\* The login-info call of the entry failed or returned zero.
LoginGaveNoIdentity == ALoginFail \/ ALoginOk(0)

\* What holds whenever the entry ends without an identity: no bot is added,
\* the connection stays tracked, start() goes on, and at the last entry it
\* returns with the adapter running.
NoBotButStarted ==
  /\ bots' = bots
  /\ apc.i \in Tracked(connections')
  /\ apc.i = Len(config) => (running' /\ alast' = "started" /\ apc'.op = "idle")
  /\ apc.i < Len(config) =>
       (apc'.op = "start" /\ apc'.i = apc.i + 1) \/ config[apc.i + 1].cls # "WebSocketConfig"

\* C34 as claimed: at such an entry a bot is registered only after login-info
\* returned a nonzero identity, and under that identity.
C34_RegistersUnderLoginIdentity ==
  [][ (AtLoginEntry /\ apc' # apc) =>
        /\ bots' # bots => (apc.phase = "promote" /\ apc.uid # 0 /\ bots' = bots \cup {apc.uid})
        /\ LoginGaveNoIdentity => NoBotButStarted
    ]_vars

\* C34: at an entry without a self_id a bot is registered only after
\* login-info returned a nonzero identity, and under the identity that the
\* login-info call of its initialize() returns; when login-info fails or
\* returns zero no bot is registered, the connection stays tracked and start()
\* succeeds.
C34_RegistersUnderInitializeIdentity ==
  [][ (AtLoginEntry /\ apc' # apc) =>
        /\ bots' # bots =>
             /\ apc.phase = "promote" /\ apc.uid # 0
             /\ \E uid \in UserIds : APromoteOk(uid) /\ bots' = bots \cup {uid}
        /\ LoginGaveNoIdentity => NoBotButStarted
    ]_vars

\* start() has returned for a single entry without a self_id whose
\* login-info call and initialize() both answered 1: the adapter is running,
\* the connection is tracked and the bot is registered under 1.
C34_Witness ==
  /\ Len(config) = 1
  /\ config[1].self_id = NoSelfId
  /\ alast = "started"
  /\ running
  /\ Tracked(connections) = {1}
  /\ conn[1] = "connected"
  /\ bots = {1}

\* ---- two entries of one connection type (C38)
SameTypeTwice == Len(config) = 2 /\ config[1].type = config[2].type

\* A step of stop(): the call itself or one of its disconnect() calls.
StopStep == apc' # apc /\ (apc.op = "stop" \/ (apc.op = "idle" /\ apc'.op = "stop"))

C33_AutoRegisterAndFanOut ==
  [][ \A i \in Entries, sid \in UserIds, post \in EventPostTypes :
        AHandleEvent(i, sid, post) =>
          /\ (/\ sid # 0
              /\ sid \notin bots
              /\ \E c \in Tracked(connections) : conn[c] = "connected") =>
               /\ bots' = bots \cup {sid}
               /\ evLast'.bound \in Tracked(connections)
               /\ conn[evLast'.bound] = "connected"
               /\ ~evLast'.ready
          /\ (sid = 0 \/ sid \in bots) => (bots' = bots /\ evLast'.bound = 0)
          /\ evLast'.emits = << <<"event">>, <<"event", post>> >>
    ]_vars

\* An event of identity 1 was handled while the bot table was empty and two
\* connections were tracked, the first of them no longer connected: the bot
\* is bound to the second.
C33_Witness ==
  /\ evLast.sid = 1
  /\ evLast.bound = 2
  /\ Len(connections) = 2
  /\ conn[1] = "dropped"
  /\ bots = {1}
  /\ running

\* ---- the bot table after stop() (C40)
\* stop() has completed (called by the owner, or by a failed start()) and no
\* start() has been called since.
Stopped == apc.op = "idle" /\ alast \in {"stopped", "raised"}

\* C40: from the end of stop() to the next start() the bot table is empty,
\* whatever events are handled meanwhile.
C40_NoBotAfterStop == Stopped => bots = {}

\* After stop() an event of identity 1, read by a connection that is still
\* connected, was handled with nothing tracked: no bot was built.
C40_Witness ==
  /\ Stopped
  /\ alast = "stopped"
  /\ evLast.sid = 1
  /\ evLast.tracked = 0
  /\ evLast.bound = 0
  /\ conn[evLast.from] = "connected"
  /\ bots = {}

\* ---- registry order (C35) and a failing handler (C39)
\* C35: the registry is sorted by ascending priority, Matchers of equal
\* priority are in registration order, and handle_event goes through the
\* registry from its first Matcher on, one index at a time.
C35_RegistrySortedStable ==
  [][ /\ \A a, b \in 1..Len(matchers') :
           a < b => /\ matchers'[a].priority <= matchers'[b].priority
                    /\ matchers'[a].priority = matchers'[b].priority =>
                         matchers'[a].id < matchers'[b].id
      /\ (\E e \in MatcherEvents : MHandleEvent(e)) => mpos' = 1
      /\ MStep =>
           /\ mpos' = mpos + 1 \/ mpc' # "running"
           /\ Len(mran') > Len(mran) => mran'[Len(mran')].id = matchers[mpos].id
      /\ \A j, k \in 1..Len(mran') : j < k => IndexOf(mran'[j].id) < IndexOf(mran'[k].id)
    ]_vars

\* Registered with priority 2, then with priority 1: the later Matcher is
\* first in the registry and handle_event ran it first.
C35_Witness ==
  /\ Len(matchers) = 2
  /\ matchers[1].id = 2
  /\ matchers[1].priority < matchers[2].priority
  /\ mpc = "returned"
  /\ Len(mran) = 2
  /\ mran[1].id = 2 /\ mran[2].id = 1

\* C39: when a handler of a Matcher raises, the handlers after it in that
\* Matcher are not called, and the Matcher does not block whatever its block
\* flag: handle_event goes on to the next Matcher of the registry.
C39_FailingHandlerEndsMatcher ==
  [][ (MStep /\ CheckPerm(matchers[mpos], mevent) = "pass"
             /\ Raises(matchers[mpos].handlers)) =>
        LET hs == matchers[mpos].handlers
            r == mran'[Len(mran')]
        IN  /\ Len(mran') = Len(mran) + 1
            /\ r.id = matchers[mpos].id
            /\ hs[r.calls] = "raise"
            /\ \A n \in 1..(r.calls - 1) : hs[n] # "raise"
            /\ IF mpos < Len(matchers)
               THEN mpc' = "running" /\ mpos' = mpos + 1
               ELSE mpc' = "returned"
    ]_vars

\* A block-flagged Matcher with three handlers whose second raised: two of
\* them were called, and the next Matcher ran.
C39_Witness ==
  /\ mpc = "returned"
  /\ Len(mran) = 2
  /\ matchers[1].block
  /\ Len(matchers[1].handlers) = 3
  /\ mran[1].what = "handler_raised"
  /\ mran[1].calls = 2
  /\ mran[2].what = "ran"

\* ---- the closed flag (C37)
\* A send_request call is made in this step (it gets the next id).
NewRequest == nreq' = nreq + 1

\* C37: nothing resets _closed.  Once disconnect() has run (called by the
\* owner or by a failed connect()), is_connected is false in every later
\* state, also after a connect() that succeeded and started the receive loop
\* again, and every send_request made from then on raises NetworkException
\* without writing a frame.
C37_ClosedIsForever ==
  [][ closed =>
        /\ closed'
        /\ ~IsConnected /\ ~IsConnected'
        /\ NewRequest =>
             /\ pc'[nreq + 1] = "done"
             /\ outcome'[nreq + 1].kind = "NetworkException"
             /\ outcome'[nreq + 1].err = NotConnectedText
             /\ wrote' = wrote
    ]_vars

\* disconnect() ran, a later connect() succeeded (flag set, socket open, loop
\* running) and a send_request was refused.
C37_Witness ==
  /\ closed
  /\ dlast # "none"
  /\ connected
  /\ ws = "open"
  /\ rxTask = "running"
  /\ nreq > 0
  /\ outcome[nreq].kind = "NetworkException"

\* ---- a response that overtakes the registration of its slot (C36)
\* The call i ended by the fetch timeout or by the cancellation of its future.
EndedByTimeoutOrCancel(i) ==
  \/ outcome[i].kind = "CancelledError"
  \/ outcome[i].kind = "NetworkException" /\ outcome[i].err = TimeoutText

\* The call i registered a slot and has ended.
EndedAfterFetch(i) == pc[i] = "done" /\ outcome[i].kind \notin {"SendError"}

\* A request has no slot while its frame is being written, and a response to
\* it that is classified meanwhile is not matched by id and leaves the
\* request without a future.
C36_EarlyResponseMissesById ==
  [][ /\ \A i \in Ids : pc[i] = "writing" =>
           i \in wrote /\ ~InTable(futures, i) /\ fut[i] = NoFuture
      /\ (HandleMessage /\ HadNoSlot(Head(inbox).frame)) =>
           LET r == Head(inbox).frame IN
             /\ ~AddResult(futures, fut, r).ret
             /\ fut'[r.echo] = NoFuture
             /\ ~InTable(futures', r.echo)
             /\ r.echo \in early'
    ]_vars

\* C36: send_request registers its slot only after the write has completed;
\* a response to the request that is classified before that is not matched
\* by id and does not resolve it, and the request then ends only by timeout
\* or by cancellation.
C36_EarlyResponseLeavesOnlyTimeout ==
  [][ /\ \A i \in Ids : pc[i] = "writing" =>
           i \in wrote /\ ~InTable(futures, i) /\ fut[i] = NoFuture
      /\ (HandleMessage /\ HadNoSlot(Head(inbox).frame)) =>
           /\ ~AddResult(futures, fut, Head(inbox).frame).ret
           /\ fut'[Head(inbox).frame.echo] = NoFuture
      /\ \A i \in early' : EndedAfterFetch(i)' => EndedByTimeoutOrCancel(i)'
    ]_vars

\* The response to request i was classified before the slot existed, the slot
\* was registered afterwards, and the call ended by the timeout.
C36_Witness ==
  \E i \in Ids : /\ i \in early
                 /\ pc[i] = "done"
                 /\ outcome[i].kind = "NetworkException"
                 /\ outcome[i].err = TimeoutText

\* ------------------------------------------- the receive loop and its tasks
\* What a handler given to add_event_handler is: a plain function that
\* raises, a coroutine function that raises, one that returns, and one that
\* calls send_request on the connection and returns its result.
EventHandlerKinds == {"sync_raise", "async_raise", "async_ok", "async_request"}

\* asyncio.iscoroutinefunction(handler)
IsCoroutine(k) == k \in {"async_raise", "async_ok", "async_request"}

\* The data frames a peer can send.  wire is the frame type; body is what the
\* payload is: bytes that are not UTF-8 (BINARY only), text that is not JSON,
\* JSON that is not an object, an object that is neither response nor event,
\* an event parse_event rejects, an event, or the response to a request that
\* was written.
LoopFrames ==
  { f \in [wire : {"text", "binary"},
           body : {"badutf8", "notjson", "notdict", "other", "badevent", "event",
                   "response"},
           echo : 0..MaxFetch] :
      /\ f.body = "badutf8" => f.wire = "binary"
      /\ f.body = "response" <=> f.echo # NoEcho
      /\ f.echo # NoEcho => f.echo \in wrote }

\* msg.data.decode() of a BINARY frame raises UnicodeDecodeError.
DecodeRaises(f) == f.wire = "binary" /\ f.body = "badutf8"

\* Work the loop started that has not ended.
HandlingOutstanding ==
  \/ lpInbox # <<>>
  \/ lpEvents > 0
  \/ \E h \in DOMAIN lpTasks : lpTasks[h].st \in {"scheduled", "waiting"}

\* _receive_loop awaiting what it started before it reads again.
ReceiveBlockedByHandling == HandlingOutstanding

\* _receive_loop hands the frame to asyncio.create_task and goes back to
\* reading: nothing it started holds it up.
ReceiveBlocked == FALSE

\* add_event_handler
LpAddEventHandler(k) ==
  /\ Len(lpHandlers) < MaxEventHandlers
  /\ lpHandlers' = Append(lpHandlers, k)
  /\ UNCHANGED <<lpInbox, lpEvents, lpTasks, lpRead, lpDone>>
  /\ UNCHANGED storeVars
  /\ UNCHANGED connVars
  /\ UNCHANGED appButLoopVars

\* _receive_loop reads one TEXT or BINARY frame.  A TEXT frame and a BINARY
\* frame that decodes are given to a new _handle_message task.  The decode of
\* a BINARY frame runs in the loop itself: when it raises, the except clause
\* of the loop logs it, the loop ends and its finally clears the flag.
LpReceive(f) ==
  /\ rxTask = "running"
  /\ ws = "open"
  /\ lpRead < MaxInbound
  /\ ~ReceiveBlocked
  /\ lpRead' = lpRead + 1
  /\ IF DecodeRaises(f)
     THEN /\ rxTask' = "finished"
          /\ connected' = FALSE
          /\ lpInbox' = lpInbox
     ELSE /\ lpInbox' = Append(lpInbox, f)
          /\ UNCHANGED <<rxTask, connected>>
  /\ UNCHANGED <<lpHandlers, lpEvents, lpTasks, lpDone>>
  /\ UNCHANGED <<closed, ws, session, hbTask, hbEnabled, dpc, dlast, wrote, inbox,
                 nframes>>
  /\ UNCHANGED storeVars
  /\ UNCHANGED appButLoopVars

\* One _handle_message task runs: text that is not JSON returns at once, JSON
\* that is not an object raises into the outer except clause, a response is
\* correlated, an event is decoded and given to a new _handle_event task
\* unless parse_event raises.
LpHandleMessage ==
  /\ lpInbox # <<>>
  /\ LET f == Head(lpInbox)
         c == Correlate(futures, fut, [echo |-> f.echo, status |-> "ok",
                                       message |-> NoField, msg |-> NoField])
     IN  /\ futures' = IF f.body = "response" THEN c.futures ELSE futures
         /\ fut' = IF f.body = "response" THEN c.fut ELSE fut
         /\ lpEvents' = IF f.body = "event" THEN lpEvents + 1 ELSE lpEvents
  /\ lpInbox' = Tail(lpInbox)
  /\ lpDone' = lpDone + 1
  /\ UNCHANGED <<lpHandlers, lpTasks, lpRead>>
  /\ UNCHANGED <<timedOut, pc, outcome, nreq, last>>
  /\ UNCHANGED connVars
  /\ UNCHANGED appButLoopVars

\* The tasks one _handle_event call creates: one for each coroutine handler,
\* in the order of the list.
NewTasks(hs) ==
  [n \in 1..Len(SelectSeq(hs, IsCoroutine)) |->
     [kind |-> SelectSeq(hs, IsCoroutine)[n], st |-> "scheduled", req |-> NoEcho]]

\* One _handle_event task of the connection runs: a coroutine handler gets a
\* task of its own, a plain function is called in place and what it raises
\* is caught and logged.
LpHandleEvent ==
  /\ lpEvents > 0
  /\ lpEvents' = lpEvents - 1
  /\ lpTasks' = lpTasks \o NewTasks(lpHandlers)
  /\ UNCHANGED <<lpHandlers, lpInbox, lpRead, lpDone>>
  /\ UNCHANGED storeVars
  /\ UNCHANGED connVars
  /\ UNCHANGED appButLoopVars

\* A handler task runs up to its first suspension or its end.  The handler
\* that calls send_request is refused when the connection is not connected;
\* otherwise the frame is written, the slot registered and the task waits.
LpTaskRuns(h) ==
  /\ h \in DOMAIN lpTasks
  /\ lpTasks[h].st = "scheduled"
  /\ IF lpTasks[h].kind = "async_request"
     THEN /\ nreq < MaxReq
          /\ nreq' = nreq + 1
          /\ IF IsConnected /\ ws = "open"
             THEN /\ wrote' = wrote \cup {nreq + 1}
                  /\ Register(nreq + 1)
                  /\ outcome' = outcome
                  /\ lpTasks' = [lpTasks EXCEPT ![h].st = "waiting", ![h].req = nreq + 1]
             ELSE /\ pc' = [pc EXCEPT ![nreq + 1] = "done"]
                  /\ outcome' = [outcome EXCEPT ![nreq + 1] =
                                   [kind |-> "NetworkException", res |-> NoResp,
                                    err |-> NotConnectedText]]
                  /\ lpTasks' = [lpTasks EXCEPT ![h].st = "raised", ![h].req = nreq + 1]
                  /\ UNCHANGED <<futures, fut, wrote>>
     ELSE /\ lpTasks' = [lpTasks EXCEPT ![h].st =
                           IF lpTasks[h].kind = "async_raise" THEN "raised" ELSE "returned"]
          /\ UNCHANGED <<futures, fut, pc, outcome, nreq, wrote>>
  /\ UNCHANGED <<lpHandlers, lpInbox, lpEvents, lpRead, lpDone>>
  /\ UNCHANGED <<timedOut, last>>
  /\ UNCHANGED <<connected, closed, ws, session, rxTask, hbTask, hbEnabled, dpc,
                 dlast, inbox, nframes>>
  /\ UNCHANGED appButLoopVars

\* A handler task waiting in send_request resumes on its done future: fetch
\* pops the slot, and the handler returns the result or raises the failure.
LpTaskResumes(h) ==
  /\ h \in DOMAIN lpTasks
  /\ lpTasks[h].st = "waiting"
  /\ fut[lpTasks[h].req].st # "pending"
  /\ LET i == lpTasks[h].req IN
       /\ futures' = Pop(futures, i)
       /\ outcome' = [outcome EXCEPT ![i] = FetchOutcome(fut[i], timedOut[i])]
       /\ pc' = [pc EXCEPT ![i] = "done"]
       /\ lpTasks' = [lpTasks EXCEPT ![h].st =
                        IF fut[i].st = "result" THEN "returned" ELSE "raised"]
  /\ UNCHANGED <<lpHandlers, lpInbox, lpEvents, lpRead, lpDone>>
  /\ UNCHANGED <<fut, timedOut, nreq, last>>
  /\ UNCHANGED connVars
  /\ UNCHANGED appButLoopVars

LoopInit == Init

LoopNext ==
  \/ ConnectOk
  \/ \E k \in EventHandlerKinds : LpAddEventHandler(k)
  \/ \E f \in LoopFrames : LpReceive(f)
  \/ LpHandleMessage
  \/ LpHandleEvent
  \/ \E h \in 1..(MaxInbound * MaxEventHandlers) : LpTaskRuns(h)
  \/ \E h \in 1..(MaxInbound * MaxEventHandlers) : LpTaskResumes(h)
  \/ \E i \in Ids : FetchTimeout(i)

LoopSpec == LoopInit /\ [][LoopNext]_vars

\* ---- frames and the life of the loop (C32, C31)
\* A step of the work the loop started: a _handle_message task, a
\* _handle_event task, or a handler task running or resuming.
HandlingStep ==
  \/ LpHandleMessage
  \/ LpHandleEvent
  \/ \E h \in DOMAIN lpTasks : LpTaskRuns(h) \/ LpTaskResumes(h)

\* Reading a frame whose bytes decode, and every step of the handling of any
\* frame (text that is not JSON, JSON that is not an object, an object that
\* is neither response nor event, an event parse_event rejects, an event
\* whose handlers raise), leaves the loop running and the connection
\* connected.
C32_DecodableFrameKeepsLoop ==
  [][ /\ \A f \in LoopFrames : (LpReceive(f) /\ ~DecodeRaises(f)) =>
           (rxTask' = "running" /\ connected' = connected /\ lpInbox' = Append(lpInbox, f))
      /\ HandlingStep => (rxTask' = rxTask /\ connected' = connected /\ ws' = ws)
      /\ LpHandleMessage => lpDone' = lpDone + 1
    ]_vars

\* C32: no inbound data frame stops reception.  After the loop has read a
\* data frame, and after every step of the handling of one, the loop is
\* still running and the connection still connected.
C32_NoDataFrameStopsReception ==
  [][ /\ \A f \in LoopFrames : LpReceive(f) => (rxTask' = "running" /\ connected' = connected)
      /\ HandlingStep => (rxTask' = rxTask /\ connected' = connected /\ ws' = ws)
    ]_vars

\* The handler task h waits in send_request for the response to its request.
HandlerWaits(h) == lpTasks[h].st = "waiting" /\ fut[lpTasks[h].req].st = "pending"

\* The response frame to request i.
ResponseTo(i) == [wire |-> "text", body |-> "response", echo |-> i]

\* C31: the loop awaits nothing it started.  While a handler task waits in
\* its own send_request (and whatever else is still scheduled), the loop can
\* read the response to that request; the _handle_message task of that
\* response settles the handler's future, and the handler resumes with the
\* response as its result.
C31_HandlerInRequestGetsItsResponse ==
  [][ /\ \A h \in DOMAIN lpTasks :
           (HandlerWaits(h) /\ rxTask = "running" /\ ws = "open" /\ lpRead < MaxInbound) =>
             ENABLED LpReceive(ResponseTo(lpTasks[h].req))
      /\ \A h \in DOMAIN lpTasks :
           (HandlerWaits(h) /\ LpHandleMessage /\ Head(lpInbox) = ResponseTo(lpTasks[h].req)) =>
             /\ fut'[lpTasks[h].req].st = "result"
             /\ fut'[lpTasks[h].req].res.echo = lpTasks[h].req
      /\ \A h \in DOMAIN lpTasks :
           (LpTaskResumes(h) /\ fut[lpTasks[h].req].st = "result") =>
             /\ lpTasks'[h].st = "returned"
             /\ outcome'[lpTasks[h].req].kind = "value"
    ]_vars

\* A handler task called send_request while handling an event, the response
\* was read and classified while it waited, and it returned with that
\* response.
C31_Witness ==
  \E h \in DOMAIN lpTasks :
    /\ lpTasks[h].kind = "async_request"
    /\ lpTasks[h].st = "returned"
    /\ outcome[lpTasks[h].req].kind = "value"
    /\ outcome[lpTasks[h].req].res.echo = lpTasks[h].req
    /\ lpRead >= 2

====
